---------------------------- MODULE Spec2Model ----------------------------
(***************************************************************************)
(* A model of hoedown's markdown.c (src/hoedown/src/markdown.c).           *)
(*                                                                         *)
(* hoedown_markdown_render is modelled as a state machine:                 *)
(*   - pass 1 (reference / footnote pre-scan, line normalisation) works   *)
(*     on the bytes of the document, exactly as the C code does;           *)
(*   - pass 2 (parse_block / parse_inline and every handler that borrows   *)
(*     a work buffer) is modelled as the call stack of the recursive       *)
(*     descent: one frame per active C function, one action per code       *)
(*     segment between two calls.  What a handler decides from the bytes   *)
(*     of its span (is there a closing delimiter, how many items, ...) is  *)
(*     a nondeterministic choice; what it decides from the parser state    *)
(*     (pool tops, max_nesting, in_link_body, extension flags, presence    *)
(*     of a renderer callback, reference table, footnote lists) is         *)
(*     computed from that state.                                           *)
(* Bytes are integers 0..255; indices are 0-based as in C (see At).        *)
(***************************************************************************)
EXTENDS Integers, Sequences, FiniteSets, TLC

(***************************************************************************)
(* Bounds of the model.                                                    *)
(***************************************************************************)
\* most dispatches (active characters met by parse_inline, blocks met by a
\* nested parse_block, further list items / table rows / cells) in one render
MaxFuel == 3
\* largest max_nesting a parser instance is created with
MaxNesting == 3
\* most lines of a document made only of definitions and blank lines
MaxDefLines == 2
\* most bytes of a document made only of text and line terminators
MaxLineBytes == 4

(***************************************************************************)
(* Program constants.                                                      *)
(***************************************************************************)
REF_TABLE_SIZE == 8
BUFFER_BLOCK == 0
BUFFER_SPAN == 1

\* The bytes the code tests for, by name.
CH == [tab |-> 9, lf |-> 10, cr |-> 13, sp |-> 32, dq |-> 34, sq |-> 39,
       lp |-> 40, rp |-> 41, colon |-> 58, lt |-> 60, gt |-> 62,
       lb |-> 91, rb |-> 93, caret |-> 94,
       nul |-> 0, hash |-> 35, amp |-> 38, semi |-> 59, at |-> 64, bs |-> 92,
       bt |-> 96, w |-> 119,
       A |-> 65, a |-> 97, b |-> 98, i |-> 105, t |-> 116, u |-> 117, x |-> 120]

UTF8_BOM == <<239, 187, 191>>

(***************************************************************************)
(* Byte-level helpers: C arrays are 0-based.                               *)
(***************************************************************************)
\* data[i]
At(data, i) == data[i + 1]

\* the bytes data[from .. to-1]
Slice(data, from, to) == SubSeq(data, from + 1, to)

\* while (i < end && data[i] \in S) i++;
RECURSIVE SkipWhile(_, _, _, _)
SkipWhile(data, i, end, S) ==
    IF i < end /\ At(data, i) \in S THEN SkipWhile(data, i + 1, end, S) ELSE i

\* while (i < end && data[i] \notin S) i++;
RECURSIVE SkipUntil(_, _, _, _)
SkipUntil(data, i, end, S) ==
    IF i < end /\ At(data, i) \notin S THEN SkipUntil(data, i + 1, end, S) ELSE i

\* while (i > low && data[i] == ' ') i -= 1;
RECURSIVE StepBack(_, _, _)
StepBack(data, i, low) ==
    IF i > low /\ At(data, i) = CH.sp THEN StepBack(data, i - 1, low) ELSE i

\* a tolower() that folds nothing
tolower_kept(c) == c

\* tolower() on one byte (C locale)
tolower(c) == IF c >= 65 /\ c <= 90 THEN c + 32 ELSE c

\* hash_link_ref: unsigned 32-bit arithmetic.  A hash is kept as its two 16-bit
\* halves <<high, low>>.  One step is
\*   hash = tolower(c) + (hash << 6) + (hash << 16) - hash   (mod 2^32)
\* that is c + 63 * hash + (low << 16), taken half by half with the carry.
hash_step(hash, c) ==
    LET low == tolower(c) + 63 * hash[2]
    IN <<(63 * hash[1] + hash[2] + (low \div 65536)) % 65536, low % 65536>>

RECURSIVE hash_from(_, _, _)
hash_from(name, i, hash) ==
    IF i > Len(name) THEN hash
    ELSE hash_from(name, i + 1, hash_step(hash, name[i]))

hash_link_ref(name) == hash_from(name, 1, <<0, 0>>)

\* hash % REF_TABLE_SIZE (REF_TABLE_SIZE divides 2^16)
bucket_of(hash) == hash[2] % REF_TABLE_SIZE

\* is_empty(data + off, size): the line length + 1 when the line is blank, else 0
RECURSIVE is_empty_from(_, _, _, _)
is_empty_from(data, off, size, i) ==
    IF i < size /\ At(data, off + i) # CH.lf
    THEN (IF At(data, off + i) # CH.sp THEN 0 ELSE is_empty_from(data, off, size, i + 1))
    ELSE i + 1

is_empty(data, off, size) == is_empty_from(data, off, size, 0)

\* expand_tabs: copy a line, each tab replaced by spaces up to the next
\* multiple-of-4 column
RECURSIVE tab_fill(_, _)
tab_fill(out, tab) ==
    IF (tab + 1) % 4 # 0 THEN tab_fill(Append(out, CH.sp), tab + 1)
    ELSE [out |-> Append(out, CH.sp), tab |-> tab + 1]

RECURSIVE expand_from(_, _, _, _)
expand_from(ob, line, i, tab) ==
    IF i >= Len(line) THEN ob
    ELSE LET j == SkipUntil(line, i, Len(line), {CH.tab})
             ob1 == ob \o Slice(line, i, j)
         IN IF j >= Len(line) THEN ob1
            ELSE LET f == tab_fill(ob1, tab + (j - i))
                 IN expand_from(f.out, line, j + 1, f.tab)

expand_tabs(ob, line) == expand_from(ob, line, 0, 0)


(***************************************************************************)
(* Reference parsing (pass 1).                                             *)
(***************************************************************************)
\* the 0..3 leading spaces of a definition line; 4 means "four spaces: no"
\* (callers have checked beg + 3 < end)
lead_spaces(data, beg) ==
    IF At(data, beg) = CH.sp
    THEN IF At(data, beg + 1) = CH.sp
         THEN IF At(data, beg + 2) = CH.sp
              THEN IF At(data, beg + 3) = CH.sp THEN 4 ELSE 3
              ELSE 2
         ELSE 1
    ELSE 0

\* i after one line terminator at i: "\n", "\r" or "\r\n" (is_footnote)
after_eol(data, i, end) ==
    IF i < end /\ At(data, i) \in {CH.lf, CH.cr}
    THEN IF i + 1 < end /\ At(data, i + 1) = CH.lf /\ At(data, i) = CH.cr
         THEN i + 2 ELSE i + 1
    ELSE i

\* the indentation of a footnote body line: at most 4 spaces
RECURSIVE indent_of(_, _, _, _)
indent_of(data, start, end, ind) ==
    IF ind < 4 /\ start + ind < end /\ At(data, start + ind) = CH.sp
    THEN indent_of(data, start, end, ind + 1) ELSE ind

\* the "process lines similar to a list item" loop of is_footnote; at the head
\* of every iteration i = start
RECURSIVE footnote_body(_, _, _, _, _, _)
footnote_body(data, end, id_end, start, in_empty, contents) ==
    IF start >= end THEN [start |-> start, contents |-> contents]
    ELSE LET i == SkipUntil(data, start, end, {CH.lf, CH.cr})
         IN IF is_empty(data, start, i - start) # 0
            THEN footnote_body(data, end, id_end, after_eol(data, i, end), TRUE, contents)
            ELSE LET ind == indent_of(data, start, end, 0)
                 IN IF ind = 0 /\ ~(start = id_end + 2 /\ At(data, start) = CH.tab)
                    THEN [start |-> start, contents |-> contents]
                    ELSE LET c1 == IF ind # 0 /\ in_empty
                                   THEN Append(contents, CH.lf) ELSE contents
                             c2 == c1 \o Slice(data, start + ind, i)
                             c3 == IF i < end THEN Append(c2, CH.lf) ELSE c2
                         IN footnote_body(data, end, id_end,
                                          after_eol(data, i, end), FALSE, c3)

NoMatch == [ok |-> FALSE]

\* is_footnote: [ok, last, id, contents]
footnote_found(data, end, id_offset, id_end, body) ==
    [ok |-> TRUE, last |-> body.start,
     id |-> hash_link_ref(Slice(data, id_offset, id_end)),
     contents |-> body.contents]

\* "id part: caret followed by anything between brackets", then the colon
footnote_id(data, end, id_offset, id_end) ==
    IF id_end >= end \/ At(data, id_end) # CH.rb THEN NoMatch
    ELSE IF id_end + 1 >= end \/ At(data, id_end + 1) # CH.colon THEN NoMatch
    ELSE footnote_found(data, end, id_offset, id_end,
                        footnote_body(data, end, id_end, id_end + 2, FALSE, <<>>))

\* i is after the leading spaces (n of them)
footnote_open(data, end, n, i) ==
    IF n = 4 \/ At(data, i) # CH.lb THEN NoMatch
    ELSE IF i + 1 >= end \/ At(data, i + 1) # CH.caret THEN NoMatch
    ELSE footnote_id(data, end, i + 2,
                     SkipUntil(data, i + 2, end, {CH.lf, CH.cr, CH.rb}))

is_footnote(data, beg, end) ==
    IF beg + 3 >= end THEN NoMatch
    ELSE footnote_open(data, end, lead_spaces(data, beg), beg + lead_spaces(data, beg))

\* is_ref, section by section as the code runs them; each section takes the
\* position i the section before it left, and the offsets found so far.
\* The result is [ok, last, id, link, has_title, title].

\* "a valid ref has been found": *last, and the entry handed to add_link_ref
ref_found(data, id_offset, id_end, link_offset, link_end, line_end, title_offset, title_end) ==
    IF line_end = 0 \/ link_end = link_offset THEN NoMatch
    ELSE [ok |-> TRUE, last |-> line_end,
          id |-> hash_link_ref(Slice(data, id_offset, id_end)),
          link |-> Slice(data, link_offset, link_end),
          has_title |-> title_end > title_offset,
          title |-> IF title_end > title_offset
                    THEN Slice(data, title_offset, title_end) ELSE <<>>]

\* "stepping back": i is where the title's closing delimiter should be
ref_title_close(data, id_offset, id_end, link_offset, link_end, line_end, title_offset, title_end, i) ==
    IF i > title_offset /\ At(data, i) \in {CH.sq, CH.dq, CH.rp}
    THEN ref_found(data, id_offset, id_end, link_offset, link_end, title_end,
                   title_offset, i)
    ELSE ref_found(data, id_offset, id_end, link_offset, link_end, line_end,
                   title_offset, title_end)

\* "looking for EOL": i is the end of the title's line
ref_title_eol(data, end, id_offset, id_end, link_offset, link_end, line_end, title_offset, i) ==
    ref_title_close(data, id_offset, id_end, link_offset, link_end, line_end,
                    title_offset,
                    IF i + 1 < end /\ At(data, i) = CH.lf /\ At(data, i + 1) = CH.cr
                    THEN i + 1 ELSE i,
                    StepBack(data, i - 1, title_offset))

\* "optional title"
ref_title(data, end, id_offset, id_end, link_offset, link_end, line_end, i) ==
    IF i + 1 < end /\ At(data, i) \in {CH.sq, CH.dq, CH.lp}
    THEN ref_title_eol(data, end, id_offset, id_end, link_offset, link_end, line_end,
                       i + 1, SkipUntil(data, i + 1, end, {CH.lf, CH.cr}))
    ELSE ref_found(data, id_offset, id_end, link_offset, link_end, line_end, 0, 0)

\* "optional (space|tab)* spacer after a newline"
ref_line_end(data, end, id_offset, id_end, link_offset, link_end, line_end, i) ==
    ref_title(data, end, id_offset, id_end, link_offset, link_end, line_end,
              IF line_end # 0 THEN SkipWhile(data, line_end + 1, end, {CH.sp}) ELSE i)

\* "optional spacer" and "computing end-of-line"
ref_after_link(data, end, id_offset, id_end, link_offset, link_end, i) ==
    IF i < end /\ At(data, i) \notin {CH.lf, CH.cr, CH.sq, CH.dq, CH.lp}
    THEN NoMatch
    ELSE ref_line_end(data, end, id_offset, id_end, link_offset, link_end,
                      IF i + 1 < end /\ At(data, i) = CH.lf /\ At(data, i + 1) = CH.cr
                      THEN i + 1
                      ELSE IF i >= end \/ At(data, i) \in {CH.cr, CH.lf} THEN i ELSE 0,
                      i)

\* the end of the link: i is the first byte after it
ref_link_end(data, end, id_offset, id_end, link_offset, i) ==
    ref_after_link(data, end, id_offset, id_end, link_offset,
                   IF At(data, i - 1) = CH.gt THEN i - 1 ELSE i,
                   SkipWhile(data, i, end, {CH.sp}))

\* "link: whitespace-free sequence, optionally between angle brackets"
ref_link(data, end, id_offset, id_end, link_offset) ==
    ref_link_end(data, end, id_offset, id_end, link_offset,
                 SkipUntil(data, link_offset, end, {CH.sp, CH.lf, CH.cr}))

\* the spacer's "newline? (space)*": i is after the colon's spaces
ref_spacer(data, end, id_offset, id_end, i) ==
    IF i < end /\ At(data, i) \in {CH.lf, CH.cr}
    THEN IF i + 1 < end /\ At(data, i + 1) = CH.cr /\ At(data, i) = CH.lf
         THEN SkipWhile(data, i + 2, end, {CH.sp})
         ELSE SkipWhile(data, i + 1, end, {CH.sp})
    ELSE SkipWhile(data, i, end, {CH.sp})

ref_after_spacer(data, end, id_offset, id_end, i) ==
    IF i >= end THEN NoMatch
    ELSE ref_link(data, end, id_offset, id_end,
                  IF At(data, i) = CH.lt THEN i + 1 ELSE i)

\* "id part: anything but a newline between brackets", then the colon
ref_id(data, end, id_offset, id_end) ==
    IF id_end >= end \/ At(data, id_end) # CH.rb THEN NoMatch
    ELSE IF id_end + 1 >= end \/ At(data, id_end + 1) # CH.colon THEN NoMatch
    ELSE ref_after_spacer(data, end, id_offset, id_end,
            ref_spacer(data, end, id_offset, id_end,
                       SkipWhile(data, id_end + 2, end, {CH.sp})))

\* i is after the leading spaces (n of them)
ref_open(data, end, n, i) ==
    IF n = 4 \/ At(data, i) # CH.lb THEN NoMatch
    ELSE ref_id(data, end, i + 1, SkipUntil(data, i + 1, end, {CH.lf, CH.cr, CH.rb}))

is_ref(data, beg, end) ==
    IF beg + 3 >= end THEN NoMatch
    ELSE ref_open(data, end, lead_spaces(data, beg), beg + lead_spaces(data, beg))

\* an add_link_ref that drops the chain it should link the new entry to
add_link_ref_alone(references, ref) ==
    [references EXCEPT ![bucket_of(ref.id)] = <<ref>>]

\* add_link_ref: the new entry becomes the head of its bucket's chain
add_link_ref(references, ref) ==
    [references EXCEPT ![bucket_of(ref.id)] = <<ref>> \o @]

\* a find_link_ref that goes on to the end of the chain: the last entry of the
\* chain with the same hash
find_link_ref_last(references, hash) ==
    LET chain == references[bucket_of(hash)]
        hits == {k \in 1..Len(chain) : chain[k].id = hash}
    IN IF hits = {} THEN <<>>
       ELSE <<chain[CHOOSE k \in hits : \A m \in hits : k >= m]>>

\* find_link_ref: the first entry of the bucket's chain with the same hash
\* (<<>> when there is none, <<ref>> otherwise)
find_link_ref(references, hash) ==
    LET chain == references[bucket_of(hash)]
        hits == {k \in 1..Len(chain) : chain[k].id = hash}
    IN IF hits = {} THEN <<>>
       ELSE <<chain[CHOOSE k \in hits : \A m \in hits : k <= m]>>

\* an add_footnote_ref that links the new item in at the head
add_footnote_ref_front(list, ref) == <<ref>> \o list

\* add_footnote_ref: the new item becomes the tail of the list
add_footnote_ref(list, ref) == Append(list, ref)

\* the newline loop of a normal line in pass 1: [end, text]
RECURSIVE newline_run(_, _, _)
newline_run(document, end, text) ==
    IF end < Len(document) /\ At(document, end) \in {CH.lf, CH.cr}
    THEN newline_run(document, end + 1,
            IF At(document, end) = CH.lf
               \/ (end + 1 < Len(document) /\ At(document, end + 1) # CH.lf)
            THEN Append(text, CH.lf) ELSE text)
    ELSE [end |-> end, text |-> text]


(***************************************************************************)
(* The state of a parser instance and of one hoedown_markdown_render call. *)
(***************************************************************************)
VARIABLES
    document,         \* the input bytes
    renderer,         \* md->md: the set of callbacks that are not NULL
    ext_flags,        \* md->ext_flags: the set of extension flags that are on
    max_nesting,      \* md->max_nesting
    refs,             \* md->refs: bucket -> chain of link_ref, head first
    footnotes_found,  \* md->footnotes_found: the footnote_ref's, in list order
    footnotes_used,   \* md->footnotes_used: indices into footnotes_found, in list order
    work_bufs,        \* md->work_bufs[type].size: the two pool tops
    in_link_body,     \* md->in_link_body
    pc,               \* where hoedown_markdown_render is
    beg,              \* render's position in the document (pass 1)
    text,             \* render's normalized text buffer
    stack,            \* the frames of the functions render has called, innermost last
    calls,            \* the calls made to the renderer (and the raw copies into an output
                      \* buffer): .step those of the last step, .seq those made so far (see
                      \* Record)
    fuel,             \* dispatches the span data still allows (see MaxFuel)
    lastret           \* the function that returned in the last step, and what it returned

vars == <<document, renderer, ext_flags, max_nesting, refs, footnotes_found,
          footnotes_used, work_bufs, in_link_body, pc, beg, text, stack, calls,
          fuel, lastret>>

\* what one render never changes
instance == <<document, renderer, ext_flags, max_nesting>>
\* what only pass 1 changes
prescan == <<beg, text, refs>>

(***************************************************************************)
(* Renderers, extension sets, documents the model draws from.              *)
(***************************************************************************)
BlockCallbacks == {"blockcode", "blockquote", "blockhtml", "header", "hrule", "list",
                   "listitem", "paragraph", "table", "table_row", "table_cell",
                   "footnotes", "footnote_def"}
SpanCallbacks == {"autolink", "codespan", "double_emphasis", "emphasis", "underline",
                  "highlight", "quote", "image", "linebreak", "link", "raw_html_tag",
                  "triple_emphasis", "strikethrough", "superscript", "footnote_ref"}
LowLevelCallbacks == {"entity", "normal_text"}
DocCallbacks == {"doc_header", "doc_footer"}
AllCallbacks == BlockCallbacks \cup SpanCallbacks \cup LowLevelCallbacks \cup DocCallbacks

AllExtensions == {"TABLES", "FENCED_CODE", "FOOTNOTES", "AUTOLINK", "STRIKETHROUGH",
                  "HIGHLIGHT", "UNDERLINE", "QUOTE", "SUPERSCRIPT", "SPACE_HEADERS",
                  "NO_INTRA_EMPHASIS", "LAX_SPACING", "DISABLE_INDENTED_CODE"}

\* a raw hoedown_buffer_put / hoedown_buffer_putc into an output buffer
RawPut == "buffer_put"

Spaces(n) == [k \in 1..n |-> CH.sp]

\* "[id]: link" lines, with the variations is_ref accepts
RefLine(ind, id, sep, angle, title, eol) ==
    Spaces(ind) \o <<CH.lb>> \o id \o <<CH.rb, CH.colon>> \o Spaces(sep)
    \o (IF angle THEN <<CH.lt, CH.u, CH.gt>> ELSE <<CH.u>>)
    \o (CASE title = "none" -> <<>>
          [] title = "dq" -> <<CH.sp, CH.dq, CH.t, CH.dq>>
          [] title = "sq" -> <<CH.sp, CH.sq, CH.t, CH.sq>>
          [] title = "paren" -> <<CH.sp, CH.lp, CH.t, CH.rp>>)
    \o eol

RefLines ==
    {RefLine(ind, id, 1, FALSE, title, <<CH.lf>>) :
        ind \in {0, 3}, id \in {<<CH.a>>, <<CH.A>>, <<CH.b>>}, title \in {"none", "dq"}}
    \cup {RefLine(0, <<CH.a>>, 0, TRUE, "paren", <<CH.cr, CH.lf>>),
          RefLine(1, <<CH.b, CH.sp, CH.a>>, 2, TRUE, "sq", <<CH.cr>>),
          RefLine(0, <<>>, 0, FALSE, "none", <<CH.lf>>),
          RefLine(0, <<CH.i>>, 1, FALSE, "none", <<CH.lf>>)}

\* "[^id]: text" lines
FootLine(id) == <<CH.lb, CH.caret>> \o id \o <<CH.rb, CH.colon, CH.sp, CH.x, CH.lf>>

BlankLine == <<CH.lf>>
TextLine == <<CH.x, CH.lf>>

RECURSIVE Flatten(_)
Flatten(ls) == IF ls = <<>> THEN <<>> ELSE Head(ls) \o Flatten(Tail(ls))

SeqsUpTo(S, n) == UNION {[1..k -> S] : k \in 0..n}

\* the last line's terminator may be missing
Unterminated(d) ==
    IF d # <<>> /\ d[Len(d)] = CH.lf /\ (Len(d) = 1 \/ d[Len(d) - 1] # CH.cr)
    THEN SubSeq(d, 1, Len(d) - 1) ELSE d

\* documents made of reference definitions only
RefOnlyLines == SeqsUpTo(RefLines, MaxDefLines)

\* documents with no body: definitions and blank lines, with or without a BOM
PrescanDocs ==
    LET flat == {Flatten(ls) : ls \in RefOnlyLines}
                \cup {Flatten(ls) : ls \in SeqsUpTo({FootLine(<<CH.a>>), BlankLine,
                                                      RefLine(0, <<CH.a>>, 1, FALSE, "none", <<CH.lf>>)},
                                                     MaxDefLines)}
        all == flat \cup {Unterminated(d) : d \in flat}
    IN all \cup {UTF8_BOM \o d : d \in all}

\* the parser instances render is explored with (hoedown_markdown_new asserts
\* max_nesting > 0)
Instance(callbacks, extensions, n) ==
    [renderer |-> callbacks, ext |-> extensions, max_nesting |-> n]

Everything(n) == Instance(AllCallbacks, AllExtensions \ {"DISABLE_INDENTED_CODE"}, n)

Partial(n) ==
    Instance(AllCallbacks \ {"normal_text", "triple_emphasis", "table_row", "footnotes"},
             {"FOOTNOTES", "AUTOLINK", "TABLES"}, n)

Footnoted(n) ==
    Instance({"doc_header", "doc_footer", "paragraph", "normal_text", "link",
              "footnote_ref", "footnote_def", "footnotes"}, {"FOOTNOTES"}, n)

Sparse(n) ==
    Instance({"paragraph", "link", "table", "doc_footer", "double_emphasis"},
             {"TABLES", "QUOTE", "DISABLE_INDENTED_CODE"}, n)

Run(d, inst) == [doc |-> d, inst |-> inst]

\* documents with a body (definitions, then text), each with the instances
\* that render it
BodyRuns ==
    {Run(TextLine, Everything(n)) : n \in 1..MaxNesting}
    \cup {Run(TextLine \o BlankLine \o TextLine, inst) : inst \in {Everything(1), Sparse(1)}}
    \cup {Run(RefLine(0, <<CH.a>>, 1, FALSE, "dq", <<CH.lf>>) \o TextLine, Everything(2)),
          Run(FootLine(<<CH.a>>) \o TextLine, Everything(2)),
          Run(RefLine(0, <<CH.a>>, 1, FALSE, "none", <<CH.lf>>)
              \o RefLine(3, <<CH.A>>, 1, FALSE, "dq", <<CH.lf>>) \o TextLine,
              Instance({"paragraph", "link"}, {}, 2)),
          Run(FootLine(<<CH.a>>) \o FootLine(<<CH.b>>) \o TextLine, Footnoted(MaxNesting)),
          Run(FootLine(<<CH.a>>) \o FootLine(<<CH.A>>) \o TextLine, Partial(2))}

\* documents of text and line terminators ("\n", "\r", "\r\n"), in every order
LineDocs == SeqsUpTo({CH.x, CH.lf, CH.cr}, MaxLineBytes)
LineRuns == {Run(d, Instance({"paragraph"}, {}, 1)) : d \in LineDocs}

\* documents without a body
PrescanRuns ==
    {Run(d, inst) : d \in PrescanDocs,
                    inst \in {Everything(1), Instance({"paragraph"}, {}, MaxNesting)}}

TypeBufs == {BUFFER_BLOCK, BUFFER_SPAN}

NoReturn == [fn |-> "", ret |-> 0, flags |-> {}]

Init ==
    /\ \E run \in BodyRuns \cup PrescanRuns \cup LineRuns :
          /\ document = run.doc
          /\ renderer = run.inst.renderer
          /\ ext_flags = run.inst.ext
          /\ max_nesting = run.inst.max_nesting
    /\ refs = [k \in 0..(REF_TABLE_SIZE - 1) |-> <<>>]
    /\ footnotes_found = <<>>
    /\ footnotes_used = <<>>
    /\ work_bufs = [t \in TypeBufs |-> 0]
    /\ in_link_body = FALSE
    /\ pc = "start"
    /\ beg = 0
    /\ text = <<>>
    /\ stack = <<>>
    /\ calls = [seq |-> <<>>, step |-> <<>>]
    /\ fuel = MaxFuel
    /\ lastret = NoReturn


(***************************************************************************)
(* Work-buffer pool, call stack, renderer calls.                           *)
(***************************************************************************)
\* a popbuf that forgets to lower the top (a leaked buffer)
popbuf_kept(wb, type) == wb

\* newbuf: hands out the buffer at the top and advances the top (both branches:
\* reuse of a spare buffer, or hoedown_stack_push of a new one)
newbuf(wb, type) == [wb EXCEPT ![type] = @ + 1]

\* popbuf: the top goes down by one
popbuf(wb, type) == [wb EXCEPT ![type] = @ - 1]

\* SPAN top + BLOCK top, as compared with max_nesting
Depth(wb) == wb[BUFFER_SPAN] + wb[BUFFER_BLOCK]

\* a nesting test that lets one more level through
nesting_exceeded_late(wb, limit) == Depth(wb) > limit + 1

\* the nesting test at the head of parse_block and of parse_inline
nesting_exceeded(wb, limit) == Depth(wb) > limit

\* a frame: the function, where it is, the pool tops and in_link_body it was
\* entered with, the pool slots it holds, and its locals
Frame(fn, at) ==
    [fn |-> fn, pc |-> at, entry |-> work_bufs, ilb |-> in_link_body, held |-> <<>>,
     abs |-> TRUE, lines |-> <<>>, c |-> "", flags |-> {}, img |-> FALSE,
     link |-> FALSE, num |-> 0, item |-> 0]

Top == stack[Len(stack)]
Below == SubSeq(stack, 1, Len(stack) - 1)
Running == stack # <<>> /\ pc # "crashed"
In(fn, at) == Running /\ Top.fn = fn /\ Top.pc = at

\* the frame f after it acquired a buffer of the given type from pool wb
Holding(f, wb, type) == [f EXCEPT !.held = Append(@, <<type, wb[type]>>)]

\* the frame f after its popbuf of the given type: it lets go of the last
\* buffer of that type it acquired
RECURSIVE DropLast(_, _)
DropLast(held, type) ==
    IF held = <<>> THEN <<>>
    ELSE IF held[Len(held)][1] = type THEN SubSeq(held, 1, Len(held) - 1)
    ELSE Append(DropLast(SubSeq(held, 1, Len(held) - 1), type), held[Len(held)])

Released(f, type) == [f EXCEPT !.held = DropLast(@, type)]

At_(f, at) == [f EXCEPT !.pc = at]

\* the top frame goes on as f
Goto(f) == stack' = Append(Below, f)
\* the top frame goes on as f after the call of g returns
Call(f, g) == stack' = Append(Append(Below, f), g)
\* the top frame returns
Return(r, fl) ==
    /\ stack' = Below
    /\ lastret' = [fn |-> Top.fn, ret |-> r, flags |-> fl]

Ev(name) == [cb |-> name, num |-> 0, flags |-> {}, fn |-> 0]
EvNum(name, n) == [cb |-> name, num |-> n, flags |-> {}, fn |-> 0]
EvFlags(name, fl) == [cb |-> name, num |-> 0, flags |-> fl, fn |-> 0]

\* the history at the start of a step
now == [calls EXCEPT !.step = <<>>]

\* the calls kept one by one in the history: those of the document and of the
\* footnotes; of the calls between two of them the history keeps the kinds
Sequenced == DocCallbacks \cup {"footnote_ref", "footnote_def", "footnotes"}

Kind(name) ==
    CASE name = RawPut -> "raw"
      [] name \in BlockCallbacks -> "block"
      [] OTHER -> "span"

Others(kinds) == [cb |-> "run", num |-> 0, flags |-> kinds, fn |-> 0]

\* the history after one more call (or raw copy)
Record(h, ev) ==
    [step |-> Append(h.step, ev),
     seq |-> IF ev.cb \in Sequenced THEN Append(h.seq, ev)
             ELSE IF h.seq # <<>> /\ h.seq[Len(h.seq)].cb = "run"
             THEN [h.seq EXCEPT ![Len(h.seq)].flags = @ \cup {Kind(ev.cb)}]
             ELSE Append(h.seq, Others({Kind(ev.cb)}))]

\* "if (md->md.x) md->md.x(...)": the history after the guarded calls evs, in order
RECURSIVE Guarded(_, _)
Guarded(h, evs) ==
    IF evs = <<>> THEN h
    ELSE Guarded(IF Head(evs).cb \in renderer THEN Record(h, Head(evs)) ELSE h,
                 Tail(evs))

\* the span still has something to dispatch on: one unit of fuel is used
Burn == fuel > 0 /\ fuel' = fuel - 1

\* the frame f and the pool after f acquired buffers of the given types, in order
RECURSIVE Acquire(_, _, _)
Acquire(f, wb, types) ==
    IF types = <<>> THEN [f |-> f, wb |-> wb]
    ELSE Acquire(Holding(f, wb, Head(types)), newbuf(wb, Head(types)), Tail(types))

\* the frame of a callee entered with the pool wb
Callee(fn, at, wb) == [Frame(fn, at) EXCEPT !.entry = wb]

\* a call through a callback pointer that is NULL: the process dies there
Crash ==
    /\ pc' = "crashed"
    /\ UNCHANGED <<document, renderer, ext_flags, max_nesting, beg, text, refs,
                   footnotes_found, footnotes_used, in_link_body, work_bufs, stack,
                   calls, lastret>>

\* the rest of a pass-2 step: nothing else changes
idle == UNCHANGED <<document, renderer, ext_flags, max_nesting, beg, text, refs, pc,
                    footnotes_found, footnotes_used, in_link_body>>

(***************************************************************************)
(* hoedown_markdown_render.                                                *)
(***************************************************************************)
footnotes_enabled == "FOOTNOTES" \in ext_flags

\* a pass 1 that does not know the BOM
bom_kept(doc) == 0

\* the first position of pass 1: after a UTF-8 BOM if the document starts with one
bom_skip(doc) ==
    IF Len(doc) >= 3 /\ SubSeq(doc, 1, 3) = UTF8_BOM THEN 3 ELSE 0

\* the lines of a '\n'-terminated buffer, each as "is it blank" (is_empty)
RECURSIVE line_kinds(_, _)
line_kinds(data, from) ==
    IF from >= Len(data) THEN <<>>
    ELSE LET e == SkipUntil(data, from, Len(data), {CH.lf})
         IN <<is_empty(data, from, Len(data) - from) # 0>> \o line_kinds(data, e + 1)

\* a start of render that leaves the tables as the render before left them
RenderStartStale ==
    /\ pc = "start"
    /\ beg' = bom_skip(document)
    /\ text' = <<>>
    /\ pc' = "pass1"
    /\ UNCHANGED <<instance, refs, footnotes_found, footnotes_used, work_bufs,
                   in_link_body, stack, fuel>>
    /\ calls' = now /\ lastret' = NoReturn

\* reset of the tables, BOM
RenderStart ==
    /\ pc = "start"
    /\ refs' = [k \in 0..(REF_TABLE_SIZE - 1) |-> <<>>]
    /\ IF footnotes_enabled
       THEN footnotes_found' = <<>> /\ footnotes_used' = <<>>
       ELSE UNCHANGED <<footnotes_found, footnotes_used>>
    /\ beg' = bom_skip(document)
    /\ text' = <<>>
    /\ pc' = "pass1"
    /\ UNCHANGED <<instance, work_bufs, in_link_body, stack, fuel>>
    /\ calls' = now /\ lastret' = NoReturn

\* first pass, one iteration of the loop over lines: a footnote definition...
Pass1Footnote ==
    /\ pc = "pass1" /\ beg < Len(document)
    /\ footnotes_enabled
    /\ LET r == is_footnote(document, beg, Len(document))
       IN /\ r.ok
          /\ footnotes_found' = add_footnote_ref(footnotes_found,
                [id |-> r.id, is_used |-> FALSE, num |-> 0, contents |-> r.contents])
          /\ beg' = r.last
    /\ UNCHANGED <<instance, refs, text, footnotes_used, work_bufs, in_link_body, pc, stack, fuel>>
    /\ calls' = now /\ lastret' = NoReturn

\* ... else a link reference ...
Pass1Ref ==
    /\ pc = "pass1" /\ beg < Len(document)
    /\ ~(footnotes_enabled /\ is_footnote(document, beg, Len(document)).ok)
    /\ LET r == is_ref(document, beg, Len(document))
       IN /\ r.ok
          /\ refs' = add_link_ref(refs, [id |-> r.id, link |-> r.link,
                                         has_title |-> r.has_title, title |-> r.title])
          /\ beg' = r.last
    /\ UNCHANGED <<instance, text, footnotes_found, footnotes_used, work_bufs, in_link_body, pc, stack, fuel>>
    /\ calls' = now /\ lastret' = NoReturn

\* ... else a line of text, copied with its tabs expanded
Pass1Line ==
    /\ pc = "pass1" /\ beg < Len(document)
    /\ ~(footnotes_enabled /\ is_footnote(document, beg, Len(document)).ok)
    /\ ~is_ref(document, beg, Len(document)).ok
    /\ LET end == SkipUntil(document, beg, Len(document), {CH.lf, CH.cr})
           body == IF end > beg THEN expand_tabs(text, Slice(document, beg, end)) ELSE text
           r == newline_run(document, end, body)
       IN text' = r.text /\ beg' = r.end
    /\ UNCHANGED <<instance, refs, footnotes_found, footnotes_used, work_bufs, in_link_body, pc, stack, fuel>>
    /\ calls' = now /\ lastret' = NoReturn

\* second pass: doc_header
RenderHeader ==
    /\ pc = "pass1" /\ beg >= Len(document)
    /\ calls' = Guarded(now, <<Ev("doc_header")>>)
    /\ pc' = "body"
    /\ UNCHANGED <<instance, prescan, footnotes_found, footnotes_used, work_bufs, in_link_body, stack, fuel>>
    /\ lastret' = NoReturn

\* a render that hands the text to parse_block as pass 1 left it
RenderBodyUnterminated ==
    /\ pc = "body"
    /\ pc' = "footnotes"
    /\ IF text # <<>>
       THEN /\ text' = text
            /\ stack' = <<[Frame("parse_block", "guard") EXCEPT
                             !.abs = FALSE, !.lines = line_kinds(text, 0)]>>
       ELSE UNCHANGED <<text, stack>>
    /\ UNCHANGED <<instance, beg, refs, footnotes_found, footnotes_used, work_bufs, in_link_body, fuel>>
    /\ calls' = now /\ lastret' = NoReturn

\* the final newline, parse_block on the text
RenderBody ==
    /\ pc = "body"
    /\ pc' = "footnotes"
    /\ IF text # <<>>
       THEN LET t == IF text[Len(text)] \notin {CH.lf, CH.cr}
                     THEN Append(text, CH.lf) ELSE text
            IN /\ text' = t
               /\ stack' = <<[Frame("parse_block", "guard") EXCEPT
                                !.abs = FALSE, !.lines = line_kinds(t, 0)]>>
       ELSE UNCHANGED <<text, stack>>
    /\ UNCHANGED <<instance, beg, refs, footnotes_found, footnotes_used, work_bufs, in_link_body, fuel>>
    /\ calls' = now /\ lastret' = NoReturn

\* footnotes
RenderFootnotes ==
    /\ pc = "footnotes" /\ stack = <<>>
    /\ pc' = "footer"
    /\ IF footnotes_enabled
       THEN stack' = <<Frame("parse_footnote_list", "start")>>
       ELSE UNCHANGED stack
    /\ UNCHANGED <<instance, prescan, footnotes_found, footnotes_used, work_bufs, in_link_body, fuel>>
    /\ calls' = now /\ lastret' = NoReturn

\* doc_footer, clean-up
RenderFooter ==
    /\ pc = "footer" /\ stack = <<>>
    /\ calls' = Guarded(now, <<Ev("doc_footer")>>)
    /\ pc' = "done"
    /\ UNCHANGED <<instance, prescan, footnotes_found, footnotes_used, work_bufs, in_link_body, stack, fuel>>
    /\ lastret' = NoReturn


(***************************************************************************)
(* Second pass.  What a construct looks like is a property of its bytes;   *)
(* below, every test made on the bytes of a span or of a nested block is a *)
(* choice, and every test made on the parser's own state (pool tops,       *)
(* max_nesting, in_link_body, extension flags, callbacks, the tables) is   *)
(* computed.  The text handed to the outermost parse_block and the         *)
(* contents of a footnote are kept as their lines (blank or not).          *)
(***************************************************************************)
\* what the second pass never changes
static == <<instance, beg, text, refs>>
foot == <<footnotes_found, footnotes_used>>

\* a call on the bytes of a nested span or block
Abstract(fn) == Frame(fn, "guard")
\* a call of parse_block on text of which the lines are known
Concrete(lines) == [Frame("parse_block", "guard") EXCEPT !.abs = FALSE, !.lines = lines]

\* parse_block after "beg += n": n bytes are some whole lines, or one line
Taken(f) ==
    IF f.abs THEN {At_(f, "loop")}
    ELSE {[f EXCEPT !.pc = "loop", !.lines = SubSeq(@, k + 1, Len(@))] :
             k \in 1..Len(f.lines)}
Line1(f) ==
    IF f.abs THEN At_(f, "loop") ELSE [f EXCEPT !.pc = "loop", !.lines = Tail(@)]

\* parse_block at the head of its loop with a block in front of it
BlockAhead ==
    /\ In("parse_block", "loop")
    /\ IF Top.abs THEN Burn
       ELSE Top.lines # <<>> /\ ~Head(Top.lines) /\ UNCHANGED fuel

\* ... tried in the order of the code: header, HTML, blank, rule, fence, table,
\* and after a table that did not match: quote, code, list, paragraph
Early == BlockAhead
Late ==
    \/ "TABLES" \notin ext_flags /\ BlockAhead
    \/ In("parse_block", "fall") /\ UNCHANGED fuel

(***************************************************************************)
(* parse_block                                                             *)
(***************************************************************************)
\* a parse_block that goes on although the nesting is too deep
ParseBlockUnguarded ==
    /\ In("parse_block", "guard")
    /\ nesting_exceeded(work_bufs, max_nesting)
    /\ Goto(At_(Top, "loop"))
    /\ UNCHANGED <<static, pc, foot, in_link_body, work_bufs, fuel>>
    /\ calls' = now /\ lastret' = NoReturn

ParseBlockTooDeep ==
    /\ In("parse_block", "guard")
    /\ nesting_exceeded(work_bufs, max_nesting)
    /\ Return(0, {})
    /\ UNCHANGED <<static, pc, foot, in_link_body, work_bufs, fuel>>
    /\ calls' = now

ParseBlockEnter ==
    /\ In("parse_block", "guard")
    /\ ~nesting_exceeded(work_bufs, max_nesting)
    /\ Goto(At_(Top, "loop"))
    /\ UNCHANGED <<static, pc, foot, in_link_body, work_bufs, fuel>>
    /\ calls' = now /\ lastret' = NoReturn

\* beg >= size
ParseBlockEnd ==
    /\ In("parse_block", "loop")
    /\ Top.abs \/ Top.lines = <<>>
    /\ Return(0, {})
    /\ UNCHANGED <<static, pc, foot, in_link_body, work_bufs, fuel>>
    /\ calls' = now

\* is_empty: the blank line is skipped
ParseBlockBlank ==
    /\ In("parse_block", "loop")
    /\ ~Top.abs /\ Top.lines # <<>> /\ Head(Top.lines)
    /\ Goto(Line1(Top))
    /\ UNCHANGED <<static, pc, foot, in_link_body, work_bufs, fuel>>
    /\ calls' = now /\ lastret' = NoReturn

ParseBlockAtx ==
    /\ Early
    /\ Call(Line1(Top), Frame("parse_atxheader", "start"))
    /\ UNCHANGED <<static, pc, foot, in_link_body, work_bufs>>
    /\ calls' = now /\ lastret' = NoReturn

\* parse_htmlblock(do_render = 1) found a block: it has no effect but the callback
ParseBlockHtml ==
    /\ Early
    /\ "blockhtml" \in renderer
    /\ \E f \in Taken(Top) : Goto(f)
    /\ calls' = Record(now, Ev("blockhtml"))
    /\ UNCHANGED <<static, pc, foot, in_link_body, work_bufs>>
    /\ lastret' = NoReturn

ParseBlockHrule ==
    /\ Early
    /\ Goto(Line1(Top))
    /\ calls' = Guarded(now, <<Ev("hrule")>>)
    /\ UNCHANGED <<static, pc, foot, in_link_body, work_bufs>>
    /\ lastret' = NoReturn

\* parse_fencedcode where is_codefence matched (where it did not, it returned 0
\* before touching anything)
ParseBlockFenced ==
    /\ Early
    /\ "FENCED_CODE" \in ext_flags
    /\ \E f \in Taken(Top) : Call(f, Frame("parse_fencedcode", "start"))
    /\ UNCHANGED <<static, pc, foot, in_link_body, work_bufs>>
    /\ calls' = now /\ lastret' = NoReturn

ParseBlockTable ==
    /\ Early
    /\ "TABLES" \in ext_flags
    /\ Call(At_(Top, "after_table"), Frame("parse_table", "start"))
    /\ UNCHANGED <<static, pc, foot, in_link_body, work_bufs>>
    /\ calls' = now /\ lastret' = NoReturn

\* (i = parse_table(...)) != 0, or the next branch
ParseBlockAfterTable ==
    /\ In("parse_block", "after_table")
    /\ IF lastret.ret # 0 THEN \E f \in Taken(Top) : Goto(f)
       ELSE Goto(At_(Top, "fall"))
    /\ UNCHANGED <<static, pc, foot, in_link_body, work_bufs, fuel>>
    /\ calls' = now /\ lastret' = NoReturn

ParseBlockQuote ==
    /\ Late
    /\ \E f \in Taken(Top) : Call(f, Frame("parse_blockquote", "start"))
    /\ UNCHANGED <<static, pc, foot, in_link_body, work_bufs>>
    /\ calls' = now /\ lastret' = NoReturn

ParseBlockCode ==
    /\ Late
    /\ "DISABLE_INDENTED_CODE" \notin ext_flags
    /\ \E f \in Taken(Top) : Call(f, Frame("parse_blockcode", "start"))
    /\ UNCHANGED <<static, pc, foot, in_link_body, work_bufs>>
    /\ calls' = now /\ lastret' = NoReturn

\* prefix_uli, else prefix_oli
ParseBlockList ==
    /\ Late
    /\ \E f \in Taken(Top), fl \in {{}, {"ORDERED"}} :
          Call(f, [Frame("parse_list", "start") EXCEPT !.flags = fl])
    /\ UNCHANGED <<static, pc, foot, in_link_body, work_bufs>>
    /\ calls' = now /\ lastret' = NoReturn

ParseBlockParagraph ==
    /\ Late
    /\ \E f \in Taken(Top) : Call(f, Frame("parse_paragraph", "start"))
    /\ UNCHANGED <<static, pc, foot, in_link_body, work_bufs>>
    /\ calls' = now /\ lastret' = NoReturn


(***************************************************************************)
(* Block-level constructs                                                  *)
(***************************************************************************)
\* parse_atxheader: a header with text
AtxHeaderOpen ==
    /\ In("parse_atxheader", "start")
    /\ LET a == Acquire(At_(Top, "render"), work_bufs, <<BUFFER_SPAN>>)
       IN Call(a.f, Callee("parse_inline", "guard", a.wb)) /\ work_bufs' = a.wb
    /\ idle /\ UNCHANGED fuel
    /\ calls' = now /\ lastret' = NoReturn

\* end <= i: nothing between the marks
AtxHeaderEmpty ==
    /\ In("parse_atxheader", "start")
    /\ Return(1, {})
    /\ idle /\ UNCHANGED <<work_bufs, fuel>>
    /\ calls' = now

AtxHeaderRender ==
    /\ In("parse_atxheader", "render")
    /\ calls' = Guarded(now, <<Ev("header")>>)
    /\ work_bufs' = popbuf(work_bufs, BUFFER_SPAN)
    /\ Return(1, {})
    /\ idle /\ UNCHANGED fuel

\* parse_paragraph, level = 0
ParagraphPlain ==
    /\ In("parse_paragraph", "start")
    /\ LET a == Acquire(At_(Top, "render"), work_bufs, <<BUFFER_BLOCK>>)
       IN Call(a.f, Callee("parse_inline", "guard", a.wb)) /\ work_bufs' = a.wb
    /\ idle /\ UNCHANGED fuel
    /\ calls' = now /\ lastret' = NoReturn

ParagraphRender ==
    /\ In("parse_paragraph", "render")
    /\ calls' = Guarded(now, <<Ev("paragraph")>>)
    /\ work_bufs' = popbuf(work_bufs, BUFFER_BLOCK)
    /\ Return(1, {})
    /\ idle /\ UNCHANGED fuel

\* level != 0 and lines before the header line: they are a paragraph
ParagraphLead ==
    /\ In("parse_paragraph", "start")
    /\ LET a == Acquire(At_(Top, "lead"), work_bufs, <<BUFFER_BLOCK>>)
       IN Call(a.f, Callee("parse_inline", "guard", a.wb)) /\ work_bufs' = a.wb
    /\ idle /\ UNCHANGED fuel
    /\ calls' = now /\ lastret' = NoReturn

ParagraphLeadRender ==
    /\ In("parse_paragraph", "lead")
    /\ calls' = Guarded(now, <<Ev("paragraph")>>)
    /\ work_bufs' = popbuf(work_bufs, BUFFER_BLOCK)
    /\ Goto(Released(At_(Top, "header"), BUFFER_BLOCK))
    /\ idle /\ UNCHANGED fuel
    /\ lastret' = NoReturn

\* the header line of a setext header
ParagraphHeader ==
    /\ In("parse_paragraph", "start") \/ In("parse_paragraph", "header")
    /\ LET a == Acquire(At_(Top, "header_render"), work_bufs, <<BUFFER_SPAN>>)
       IN Call(a.f, Callee("parse_inline", "guard", a.wb)) /\ work_bufs' = a.wb
    /\ idle /\ UNCHANGED fuel
    /\ calls' = now /\ lastret' = NoReturn

ParagraphHeaderRender ==
    /\ In("parse_paragraph", "header_render")
    /\ calls' = Guarded(now, <<Ev("header")>>)
    /\ work_bufs' = popbuf(work_bufs, BUFFER_SPAN)
    /\ Return(1, {})
    /\ idle /\ UNCHANGED fuel

\* parse_blockquote
BlockquoteOpen ==
    /\ In("parse_blockquote", "start")
    /\ LET a == Acquire(At_(Top, "render"), work_bufs, <<BUFFER_BLOCK>>)
       IN Call(a.f, Callee("parse_block", "guard", a.wb)) /\ work_bufs' = a.wb
    /\ idle /\ UNCHANGED fuel
    /\ calls' = now /\ lastret' = NoReturn

BlockquoteRender ==
    /\ In("parse_blockquote", "render")
    /\ calls' = Guarded(now, <<Ev("blockquote")>>)
    /\ work_bufs' = popbuf(work_bufs, BUFFER_BLOCK)
    /\ Return(1, {})
    /\ idle /\ UNCHANGED fuel

\* parse_fencedcode
FencedCodeOpen ==
    /\ In("parse_fencedcode", "start")
    /\ LET a == Acquire(At_(Top, "render"), work_bufs, <<BUFFER_BLOCK>>)
       IN Goto(a.f) /\ work_bufs' = a.wb
    /\ idle /\ UNCHANGED fuel
    /\ calls' = now /\ lastret' = NoReturn

FencedCodeRender ==
    /\ In("parse_fencedcode", "render")
    /\ calls' = Guarded(now, <<Ev("blockcode")>>)
    /\ work_bufs' = popbuf(work_bufs, BUFFER_BLOCK)
    /\ Return(1, {})
    /\ idle /\ UNCHANGED fuel

\* parse_blockcode
BlockCodeOpen ==
    /\ In("parse_blockcode", "start")
    /\ LET a == Acquire(At_(Top, "render"), work_bufs, <<BUFFER_BLOCK>>)
       IN Goto(a.f) /\ work_bufs' = a.wb
    /\ idle /\ UNCHANGED fuel
    /\ calls' = now /\ lastret' = NoReturn

BlockCodeRender ==
    /\ In("parse_blockcode", "render")
    /\ calls' = Guarded(now, <<Ev("blockcode")>>)
    /\ work_bufs' = popbuf(work_bufs, BUFFER_BLOCK)
    /\ Return(1, {})
    /\ idle /\ UNCHANGED fuel

\* parse_list: the buffer, the first item
ListOpen ==
    /\ In("parse_list", "start")
    /\ LET a == Acquire(At_(Top, "after_item"), work_bufs, <<BUFFER_BLOCK>>)
       IN /\ Call(a.f, [Callee("parse_listitem", "start", a.wb) EXCEPT
                           !.flags = Top.flags])
          /\ work_bufs' = a.wb
    /\ idle /\ UNCHANGED fuel
    /\ calls' = now /\ lastret' = NoReturn

\* j != 0, no HOEDOWN_LI_END, i < size: the next item
ListNext ==
    /\ In("parse_list", "after_item")
    /\ lastret.ret # 0 /\ "LI_END" \notin lastret.flags
    /\ Burn
    /\ Call([Top EXCEPT !.flags = lastret.flags],
            [Callee("parse_listitem", "start", work_bufs) EXCEPT
                !.flags = lastret.flags, !.num = 1])
    /\ idle /\ UNCHANGED work_bufs
    /\ calls' = now /\ lastret' = NoReturn

ListRender ==
    /\ In("parse_list", "after_item")
    /\ calls' = Guarded(now, <<EvFlags("list", lastret.flags)>>)
    /\ work_bufs' = popbuf(work_bufs, BUFFER_BLOCK)
    /\ Return(1, {})
    /\ idle /\ UNCHANGED fuel

\* parse_listitem: no item prefix (never on the first item of a list)
ListItemNone ==
    /\ In("parse_listitem", "start")
    /\ Top.num # 0
    /\ Return(0, Top.flags)
    /\ idle /\ UNCHANGED <<work_bufs, fuel>>
    /\ calls' = now

\* the two buffers, the scan of the item's lines, the first render of its contents
ListItemOpen ==
    /\ In("parse_listitem", "start")
    /\ \E li_end \in BOOLEAN, has_inside_empty \in BOOLEAN, sublist \in BOOLEAN :
          LET fl == Top.flags \cup (IF li_end THEN {"LI_END"} ELSE {})
                              \cup (IF has_inside_empty THEN {"LI_BLOCK"} ELSE {})
              f == [Top EXCEPT !.flags = fl, !.num = 0,
                               !.pc = IF sublist THEN "sublist" ELSE "render"]
              a == Acquire(f, work_bufs, <<BUFFER_SPAN, BUFFER_SPAN>>)
          IN /\ Call(a.f, Callee(IF "LI_BLOCK" \in fl THEN "parse_block"
                                 ELSE "parse_inline", "guard", a.wb))
             /\ work_bufs' = a.wb
    /\ idle /\ UNCHANGED fuel
    /\ calls' = now /\ lastret' = NoReturn

\* the part of the contents from the nested list on
ListItemSublist ==
    /\ In("parse_listitem", "sublist")
    /\ Call(At_(Top, "render"), Abstract("parse_block"))
    /\ idle /\ UNCHANGED <<work_bufs, fuel>>
    /\ calls' = now /\ lastret' = NoReturn

ListItemRender ==
    /\ In("parse_listitem", "render")
    /\ calls' = Guarded(now, <<EvFlags("listitem", Top.flags)>>)
    /\ work_bufs' = popbuf(popbuf(work_bufs, BUFFER_SPAN), BUFFER_SPAN)
    /\ Return(1, Top.flags)
    /\ idle /\ UNCHANGED fuel

\* parse_table: header_work and body_work
TableOpen ==
    /\ In("parse_table", "start")
    /\ LET a == Acquire(At_(Top, "header"), work_bufs, <<BUFFER_SPAN, BUFFER_BLOCK>>)
       IN Goto(a.f) /\ work_bufs' = a.wb
    /\ idle /\ UNCHANGED fuel
    /\ calls' = now /\ lastret' = NoReturn

\* parse_table_header returned 0: no pipes, or a bad underline
TableHeaderFail ==
    /\ In("parse_table", "header")
    /\ work_bufs' = popbuf(popbuf(work_bufs, BUFFER_SPAN), BUFFER_BLOCK)
    /\ Return(0, {})
    /\ idle /\ UNCHANGED fuel
    /\ calls' = now

\* parse_table_header: the header row
TableHeader ==
    /\ In("parse_table", "header")
    /\ Call(At_(Top, "rows"), Frame("parse_table_row", "start"))
    /\ idle /\ UNCHANGED <<work_bufs, fuel>>
    /\ calls' = now /\ lastret' = NoReturn

\* a body row
TableRow ==
    /\ In("parse_table", "rows")
    /\ Burn
    /\ Call(Top, Frame("parse_table_row", "start"))
    /\ idle /\ UNCHANGED work_bufs
    /\ calls' = now /\ lastret' = NoReturn

TableRender ==
    /\ In("parse_table", "rows")
    /\ calls' = Guarded(now, <<Ev("table")>>)
    /\ work_bufs' = popbuf(popbuf(work_bufs, BUFFER_SPAN), BUFFER_BLOCK)
    /\ Return(1, {})
    /\ idle /\ UNCHANGED fuel

\* parse_table_row: !md->md.table_cell || !md->md.table_row
TableRowSkipped ==
    /\ In("parse_table_row", "start")
    /\ "table_cell" \notin renderer \/ "table_row" \notin renderer
    /\ Return(0, {})
    /\ idle /\ UNCHANGED <<work_bufs, fuel>>
    /\ calls' = now

TableRowOpen ==
    /\ In("parse_table_row", "start")
    /\ "table_cell" \in renderer /\ "table_row" \in renderer
    /\ LET a == Acquire(At_(Top, "cells"), work_bufs, <<BUFFER_SPAN>>)
       IN Goto(a.f) /\ work_bufs' = a.wb
    /\ idle /\ UNCHANGED fuel
    /\ calls' = now /\ lastret' = NoReturn

\* col < columns && i < size: one cell
TableCell ==
    /\ In("parse_table_row", "cells")
    /\ Burn
    /\ LET a == Acquire(At_(Top, "cell"), work_bufs, <<BUFFER_SPAN>>)
       IN Call(a.f, Callee("parse_inline", "guard", a.wb)) /\ work_bufs' = a.wb
    /\ idle
    /\ calls' = now /\ lastret' = NoReturn

TableCellRender ==
    /\ In("parse_table_row", "cell")
    /\ calls' = Record(now, Ev("table_cell"))
    /\ work_bufs' = popbuf(work_bufs, BUFFER_SPAN)
    /\ Goto(Released(At_(Top, "cells"), BUFFER_SPAN))
    /\ idle /\ UNCHANGED fuel
    /\ lastret' = NoReturn

\* the cells the row does not have, the row
TableRowRender ==
    /\ In("parse_table_row", "cells")
    /\ \E missing \in BOOLEAN :
          calls' = Record(IF missing THEN Record(now, Ev("table_cell")) ELSE now,
                          Ev("table_row"))
    /\ work_bufs' = popbuf(work_bufs, BUFFER_SPAN)
    /\ Return(0, {})
    /\ idle /\ UNCHANGED fuel

\* a parse_footnote_list without the test of footnotes->count
FootnoteListEmptyRendered ==
    /\ In("parse_footnote_list", "start")
    /\ footnotes_used = <<>>
    /\ calls' = Guarded(now, <<Ev("footnotes")>>)
    /\ Return(0, {})
    /\ idle /\ UNCHANGED <<work_bufs, fuel>>

\* parse_footnote_list: footnotes->count == 0
FootnoteListEmpty ==
    /\ In("parse_footnote_list", "start")
    /\ footnotes_used = <<>>
    /\ Return(0, {})
    /\ idle /\ UNCHANGED <<work_bufs, fuel>>
    /\ calls' = now

FootnoteListOpen ==
    /\ In("parse_footnote_list", "start")
    /\ footnotes_used # <<>>
    /\ LET a == Acquire([Top EXCEPT !.pc = "item", !.item = 1], work_bufs,
                        <<BUFFER_BLOCK>>)
       IN Goto(a.f) /\ work_bufs' = a.wb
    /\ idle /\ UNCHANGED fuel
    /\ calls' = now /\ lastret' = NoReturn

\* while (item): the definition of item->ref, then item->next
FootnoteListItem ==
    /\ In("parse_footnote_list", "item")
    /\ Top.item <= Len(footnotes_used)
    /\ Call([Top EXCEPT !.item = @ + 1],
            [Frame("parse_footnote_def", "start") EXCEPT
                !.item = footnotes_used[Top.item],
                !.num = footnotes_found[footnotes_used[Top.item]].num])
    /\ idle /\ UNCHANGED <<work_bufs, fuel>>
    /\ calls' = now /\ lastret' = NoReturn

FootnoteListRender ==
    /\ In("parse_footnote_list", "item")
    /\ Top.item > Len(footnotes_used)
    /\ calls' = Guarded(now, <<Ev("footnotes")>>)
    /\ work_bufs' = popbuf(work_bufs, BUFFER_BLOCK)
    /\ Return(0, {})
    /\ idle /\ UNCHANGED fuel

\* parse_footnote_def
FootnoteDefOpen ==
    /\ In("parse_footnote_def", "start")
    /\ LET a == Acquire(At_(Top, "render"), work_bufs, <<BUFFER_SPAN>>)
           body == footnotes_found[Top.item].contents
       IN /\ Call(a.f, [Concrete(line_kinds(body, 0)) EXCEPT !.entry = a.wb])
          /\ work_bufs' = a.wb
    /\ idle /\ UNCHANGED fuel
    /\ calls' = now /\ lastret' = NoReturn

FootnoteDefRender ==
    /\ In("parse_footnote_def", "render")
    /\ calls' = Guarded(now, <<[cb |-> "footnote_def", num |-> Top.num,
                                  flags |-> {}, fn |-> Top.item]>>)
    /\ work_bufs' = popbuf(work_bufs, BUFFER_SPAN)
    /\ Return(0, {})
    /\ idle /\ UNCHANGED fuel


(***************************************************************************)
(* hoedown_markdown_new: the active characters                             *)
(***************************************************************************)
Chars == {"star", "underscore", "tilde", "equals", "backtick", "newline", "bracket",
          "langle", "backslash", "amp", "colon", "at", "w", "caret", "dquote"}

has_emphasis == {"emphasis", "double_emphasis", "triple_emphasis"} \cap renderer # {}

\* md->active_char[c], as the handler it selects ("" for 0)
active_char(c) ==
    CASE c \in {"star", "underscore"} ->
            IF has_emphasis THEN "char_emphasis" ELSE ""
      [] c = "tilde" ->
            IF has_emphasis /\ "STRIKETHROUGH" \in ext_flags THEN "char_emphasis" ELSE ""
      [] c = "equals" ->
            IF has_emphasis /\ "HIGHLIGHT" \in ext_flags THEN "char_emphasis" ELSE ""
      [] c = "backtick" -> IF "codespan" \in renderer THEN "char_codespan" ELSE ""
      [] c = "newline" -> IF "linebreak" \in renderer THEN "char_linebreak" ELSE ""
      [] c = "bracket" ->
            IF "image" \in renderer \/ "link" \in renderer THEN "char_link" ELSE ""
      [] c = "langle" -> "char_langle_tag"
      [] c = "backslash" -> "char_escape"
      [] c = "amp" -> "char_entity"
      [] c = "colon" -> IF "AUTOLINK" \in ext_flags THEN "char_autolink_url" ELSE ""
      [] c = "at" -> IF "AUTOLINK" \in ext_flags THEN "char_autolink_email" ELSE ""
      [] c = "w" -> IF "AUTOLINK" \in ext_flags THEN "char_autolink_www" ELSE ""
      [] c = "caret" -> IF "SUPERSCRIPT" \in ext_flags THEN "char_superscript" ELSE ""
      [] c = "dquote" -> IF "QUOTE" \in ext_flags THEN "char_quote" ELSE ""
      [] OTHER -> ""

(***************************************************************************)
(* parse_inline                                                            *)
(***************************************************************************)
InlineTooDeep ==
    /\ In("parse_inline", "guard")
    /\ nesting_exceeded(work_bufs, max_nesting)
    /\ Return(0, {})
    /\ idle /\ UNCHANGED <<work_bufs, fuel>>
    /\ calls' = now

InlineEnter ==
    /\ In("parse_inline", "guard")
    /\ ~nesting_exceeded(work_bufs, max_nesting)
    /\ Goto(At_(Top, "loop"))
    /\ idle /\ UNCHANGED <<work_bufs, fuel>>
    /\ calls' = now /\ lastret' = NoReturn

\* the run of inactive characters (it may be empty) goes to normal_text, or
\* into the output buffer as it is
InlineText ==
    /\ In("parse_inline", "loop")
    /\ calls' = Record(now, Ev(IF "normal_text" \in renderer THEN "normal_text"
                                 ELSE RawPut))
    /\ Goto(At_(Top, "disp"))
    /\ idle /\ UNCHANGED <<work_bufs, fuel>>
    /\ lastret' = NoReturn

\* end >= size
InlineEnd ==
    /\ In("parse_inline", "disp")
    /\ Return(0, {})
    /\ idle /\ UNCHANGED <<work_bufs, fuel>>
    /\ calls' = now

\* an active character c is at data[end]: its handler is called
Dispatch(c) == In("parse_inline", "disp") /\ active_char(c) # "" /\ Burn

\* a handler that calls nothing but the renderer is done in the same step
Handled(fn, r) ==
    /\ Goto(At_(Top, "loop"))
    /\ lastret' = [fn |-> fn, ret |-> r, flags |-> {}]

\* what a handler found: nothing it handles, or something the callback
\* refused (returned 0 for), or something the callback took
Outcomes == {"nomatch", "refused", "taken"}
Result(o) == IF o = "taken" THEN 1 ELSE 0
Called(h, o, name) == IF o = "nomatch" THEN h ELSE Record(h, Ev(name))

CharLinebreak ==
    /\ Dispatch("newline")
    /\ \E o \in Outcomes :
          calls' = Called(now, o, "linebreak") /\ Handled("char_linebreak", Result(o))
    /\ idle /\ UNCHANGED work_bufs

CharCodespan ==
    /\ Dispatch("backtick")
    /\ \E o \in Outcomes :
          calls' = Called(now, o, "codespan") /\ Handled("char_codespan", Result(o))
    /\ idle /\ UNCHANGED work_bufs

\* md->md.quote is called without a test
CharQuote ==
    /\ Dispatch("dquote")
    /\ \E o \in Outcomes :
          IF o # "nomatch" /\ "quote" \notin renderer THEN Crash
          ELSE /\ calls' = Called(now, o, "quote")
               /\ Handled("char_quote", Result(o))
               /\ idle /\ UNCHANGED work_bufs

\* a character that is not escapable (0), an escapable one, or a last backslash
CharEscape ==
    /\ Dispatch("backslash")
    /\ \E o \in {"nomatch", "escaped", "last"} :
          /\ calls' = CASE o = "nomatch" -> now
                        [] o = "escaped" ->
                             Record(now, Ev(IF "normal_text" \in renderer
                                              THEN "normal_text" ELSE RawPut))
                        [] o = "last" -> Record(now, Ev(RawPut))
          /\ Handled("char_escape", IF o = "nomatch" THEN 0 ELSE 2)
    /\ idle /\ UNCHANGED work_bufs

\* a lone '&' (0), or an entity
CharEntity ==
    /\ Dispatch("amp")
    /\ \E o \in {"nomatch", "entity"} :
          /\ calls' = IF o = "nomatch" THEN now
                      ELSE Record(now, Ev(IF "entity" \in renderer THEN "entity"
                                            ELSE RawPut))
          /\ Handled("char_entity", IF o = "nomatch" THEN 0 ELSE 1)
    /\ idle /\ UNCHANGED work_bufs

(***************************************************************************)
(* Emphasis                                                                *)
(***************************************************************************)
\* the handler of a character that may open a nested span gets a frame
Handler(c, f) == Dispatch(c) /\ Call(At_(Top, "loop"), f)

\* The mark c = data[0] is one of the active emphasis characters.  The frames
\* keep of it what the code has tested so far: nothing ("any"), or that it is
\* neither '~' nor '=' ("single"); the callback is chosen from c where the
\* code chooses it.
Marks(tested) ==
    {c \in {"star", "underscore", "tilde", "equals"} :
        /\ active_char(c) = "char_emphasis"
        /\ tested = "single" => c \in {"star", "underscore"}}

CharEmphasis ==
    /\ \E c \in Marks("any") : Handler(c, Frame("char_emphasis", "start"))
    /\ idle /\ UNCHANGED work_bufs
    /\ calls' = now /\ lastret' = NoReturn

\* NO_INTRA_EMPHASIS inside a word, whitespace after the mark, "~x", too short
EmphasisNone ==
    /\ In("char_emphasis", "start")
    /\ Return(0, {})
    /\ idle /\ UNCHANGED <<work_bufs, fuel>>
    /\ calls' = now

\* one mark: parse_emph1, two: parse_emph2, three: parse_emph3; '~' and '='
\* come in twos only
EmphasisParse ==
    /\ In("char_emphasis", "start")
    /\ \E fn \in {"parse_emph1", "parse_emph2", "parse_emph3"} :
          LET tested == IF fn = "parse_emph2" THEN "any" ELSE "single"
          IN /\ Marks(tested) # {}
             /\ Call(At_(Top, "after"), [Frame(fn, "start") EXCEPT !.c = tested])
    /\ idle /\ UNCHANGED <<work_bufs, fuel>>
    /\ calls' = now /\ lastret' = NoReturn

\* 0, or ret + the number of marks
EmphasisAfter ==
    /\ In("char_emphasis", "after")
    /\ Return(lastret.ret, {})
    /\ idle /\ UNCHANGED <<work_bufs, fuel>>
    /\ calls' = now

\* parse_emph1: no closing mark
Emph1None ==
    /\ In("parse_emph1", "start")
    /\ Return(0, {})
    /\ idle /\ UNCHANGED <<work_bufs, fuel>>
    /\ calls' = now

Emph1Open ==
    /\ In("parse_emph1", "start")
    /\ LET a == Acquire(At_(Top, "render"), work_bufs, <<BUFFER_SPAN>>)
       IN Call(a.f, Callee("parse_inline", "guard", a.wb)) /\ work_bufs' = a.wb
    /\ idle /\ UNCHANGED fuel
    /\ calls' = now /\ lastret' = NoReturn

\* md->md.underline or md->md.emphasis, called without a test
emph1_callback(c) ==
    IF "UNDERLINE" \in ext_flags /\ c = "underscore" THEN "underline" ELSE "emphasis"

Emph1Render ==
    /\ In("parse_emph1", "render")
    /\ \E c \in Marks(Top.c) :
          IF emph1_callback(c) \notin renderer THEN Crash
          ELSE /\ calls' = Record(now, Ev(emph1_callback(c)))
               /\ work_bufs' = popbuf(work_bufs, BUFFER_SPAN)
               /\ \E r \in {0, 1} : Return(r, {})
               /\ idle
    /\ UNCHANGED fuel

\* parse_emph2
Emph2None ==
    /\ In("parse_emph2", "start")
    /\ Return(0, {})
    /\ idle /\ UNCHANGED <<work_bufs, fuel>>
    /\ calls' = now

Emph2Open ==
    /\ In("parse_emph2", "start")
    /\ LET a == Acquire(At_(Top, "render"), work_bufs, <<BUFFER_SPAN>>)
       IN Call(a.f, Callee("parse_inline", "guard", a.wb)) /\ work_bufs' = a.wb
    /\ idle /\ UNCHANGED fuel
    /\ calls' = now /\ lastret' = NoReturn

\* strikethrough, highlight or double_emphasis, called without a test
emph2_callback(c) ==
    CASE c = "tilde" -> "strikethrough"
      [] c = "equals" -> "highlight"
      [] OTHER -> "double_emphasis"

Emph2Render ==
    /\ In("parse_emph2", "render")
    /\ \E c \in Marks(Top.c) :
          IF emph2_callback(c) \notin renderer THEN Crash
          ELSE /\ calls' = Record(now, Ev(emph2_callback(c)))
               /\ work_bufs' = popbuf(work_bufs, BUFFER_SPAN)
               /\ \E r \in {0, 1} : Return(r, {})
               /\ idle
    /\ UNCHANGED fuel

\* parse_emph3
Emph3None ==
    /\ In("parse_emph3", "start")
    /\ Return(0, {})
    /\ idle /\ UNCHANGED <<work_bufs, fuel>>
    /\ calls' = now

\* three closing marks and a triple_emphasis callback
Emph3Open ==
    /\ In("parse_emph3", "start")
    /\ "triple_emphasis" \in renderer
    /\ LET a == Acquire(At_(Top, "render"), work_bufs, <<BUFFER_SPAN>>)
       IN Call(a.f, Callee("parse_inline", "guard", a.wb)) /\ work_bufs' = a.wb
    /\ idle /\ UNCHANGED fuel
    /\ calls' = now /\ lastret' = NoReturn

Emph3Render ==
    /\ In("parse_emph3", "render")
    /\ calls' = Record(now, Ev("triple_emphasis"))
    /\ work_bufs' = popbuf(work_bufs, BUFFER_SPAN)
    /\ \E r \in {0, 1} : Return(r, {})
    /\ idle /\ UNCHANGED fuel

\* two closing marks: parse_emph1 on data - 2, one: parse_emph2 on data - 1
Emph3Delegate ==
    /\ In("parse_emph3", "start")
    /\ \E fn \in {"parse_emph1", "parse_emph2"} :
          Call(At_(Top, "after"), [Frame(fn, "start") EXCEPT !.c = "single"])
    /\ idle /\ UNCHANGED <<work_bufs, fuel>>
    /\ calls' = now /\ lastret' = NoReturn

Emph3After ==
    /\ In("parse_emph3", "after")
    /\ Return(lastret.ret, {})
    /\ idle /\ UNCHANGED <<work_bufs, fuel>>
    /\ calls' = now

(***************************************************************************)
(* '<', the autolinks, '^'                                                 *)
(***************************************************************************)
CharLangleTag ==
    /\ Handler("langle", Frame("char_langle_tag", "start"))
    /\ idle /\ UNCHANGED work_bufs
    /\ calls' = now /\ lastret' = NoReturn

\* end <= 2, or no callback for what was found
LangleNone ==
    /\ In("char_langle_tag", "start")
    /\ Return(0, {})
    /\ idle /\ UNCHANGED <<work_bufs, fuel>>
    /\ calls' = now

\* a tag (or, without an autolink callback, anything that tag_length accepts)
LangleRaw ==
    /\ In("char_langle_tag", "start")
    /\ "raw_html_tag" \in renderer
    /\ calls' = Record(now, Ev("raw_html_tag"))
    /\ \E r \in {0, 1} : Return(r, {})
    /\ idle /\ UNCHANGED <<work_bufs, fuel>>

\* md->md.autolink && altype != HOEDOWN_AUTOLINK_NONE
LangleOpen ==
    /\ In("char_langle_tag", "start")
    /\ "autolink" \in renderer
    /\ LET a == Acquire(At_(Top, "render"), work_bufs, <<BUFFER_SPAN>>)
       IN Goto(a.f) /\ work_bufs' = a.wb
    /\ idle /\ UNCHANGED fuel
    /\ calls' = now /\ lastret' = NoReturn

LangleRender ==
    /\ In("char_langle_tag", "render")
    /\ calls' = Record(now, Ev("autolink"))
    /\ work_bufs' = popbuf(work_bufs, BUFFER_SPAN)
    /\ \E r \in {0, 1} : Return(r, {})
    /\ idle /\ UNCHANGED fuel

\* char_autolink_url
CharAutolinkUrl ==
    /\ Handler("colon", Frame("char_autolink_url", "start"))
    /\ idle /\ UNCHANGED work_bufs
    /\ calls' = now /\ lastret' = NoReturn

\* !md->md.autolink || md->in_link_body
suppressed(callback) == callback \notin renderer \/ in_link_body

UrlSuppressed ==
    /\ In("char_autolink_url", "start")
    /\ suppressed("autolink")
    /\ Return(0, {})
    /\ idle /\ UNCHANGED <<work_bufs, fuel>>
    /\ calls' = now

UrlOpen ==
    /\ In("char_autolink_url", "start")
    /\ ~suppressed("autolink")
    /\ LET a == Acquire(At_(Top, "scan"), work_bufs, <<BUFFER_SPAN>>)
       IN Goto(a.f) /\ work_bufs' = a.wb
    /\ idle /\ UNCHANGED fuel
    /\ calls' = now /\ lastret' = NoReturn

\* hoedown_autolink__url found a link, or not
UrlScan ==
    /\ In("char_autolink_url", "scan")
    /\ \E link_len \in {0, 1} :
          /\ calls' = IF link_len > 0 THEN Record(now, Ev("autolink")) ELSE now
          /\ Return(link_len, {})
    /\ work_bufs' = popbuf(work_bufs, BUFFER_SPAN)
    /\ idle /\ UNCHANGED fuel

\* char_autolink_email
CharAutolinkEmail ==
    /\ Handler("at", Frame("char_autolink_email", "start"))
    /\ idle /\ UNCHANGED work_bufs
    /\ calls' = now /\ lastret' = NoReturn

EmailSuppressed ==
    /\ In("char_autolink_email", "start")
    /\ suppressed("autolink")
    /\ Return(0, {})
    /\ idle /\ UNCHANGED <<work_bufs, fuel>>
    /\ calls' = now

EmailOpen ==
    /\ In("char_autolink_email", "start")
    /\ ~suppressed("autolink")
    /\ LET a == Acquire(At_(Top, "scan"), work_bufs, <<BUFFER_SPAN>>)
       IN Goto(a.f) /\ work_bufs' = a.wb
    /\ idle /\ UNCHANGED fuel
    /\ calls' = now /\ lastret' = NoReturn

EmailScan ==
    /\ In("char_autolink_email", "scan")
    /\ \E link_len \in {0, 1} :
          /\ calls' = IF link_len > 0 THEN Record(now, Ev("autolink")) ELSE now
          /\ Return(link_len, {})
    /\ work_bufs' = popbuf(work_bufs, BUFFER_SPAN)
    /\ idle /\ UNCHANGED fuel

\* char_autolink_www
CharAutolinkWww ==
    /\ Handler("w", Frame("char_autolink_www", "start"))
    /\ idle /\ UNCHANGED work_bufs
    /\ calls' = now /\ lastret' = NoReturn

WwwSuppressed ==
    /\ In("char_autolink_www", "start")
    /\ suppressed("link")
    /\ Return(0, {})
    /\ idle /\ UNCHANGED <<work_bufs, fuel>>
    /\ calls' = now

WwwOpen ==
    /\ In("char_autolink_www", "start")
    /\ ~suppressed("link")
    /\ LET a == Acquire(At_(Top, "scan"), work_bufs, <<BUFFER_SPAN>>)
       IN Goto(a.f) /\ work_bufs' = a.wb
    /\ idle /\ UNCHANGED fuel
    /\ calls' = now /\ lastret' = NoReturn

\* hoedown_autolink__www found nothing
WwwNone ==
    /\ In("char_autolink_www", "scan")
    /\ work_bufs' = popbuf(work_bufs, BUFFER_SPAN)
    /\ Return(0, {})
    /\ idle /\ UNCHANGED fuel
    /\ calls' = now

\* link_url, and link_text if there is a normal_text callback
WwwMatch ==
    /\ In("char_autolink_www", "scan")
    /\ LET a == Acquire(At_(Top, "render"), work_bufs,
                        IF "normal_text" \in renderer
                        THEN <<BUFFER_SPAN, BUFFER_SPAN>> ELSE <<BUFFER_SPAN>>)
       IN Goto(a.f) /\ work_bufs' = a.wb
    /\ idle /\ UNCHANGED fuel
    /\ calls' = now /\ lastret' = NoReturn

WwwRender ==
    /\ In("char_autolink_www", "render")
    /\ calls' = Record(Guarded(now, <<Ev("normal_text")>>), Ev("link"))
    /\ work_bufs' = (IF "normal_text" \in renderer
                     THEN popbuf(popbuf(popbuf(work_bufs, BUFFER_SPAN), BUFFER_SPAN),
                                 BUFFER_SPAN)
                     ELSE popbuf(popbuf(work_bufs, BUFFER_SPAN), BUFFER_SPAN))
    /\ Return(1, {})
    /\ idle /\ UNCHANGED fuel

\* char_superscript
CharSuperscript ==
    /\ Handler("caret", Frame("char_superscript", "start"))
    /\ idle /\ UNCHANGED work_bufs
    /\ calls' = now /\ lastret' = NoReturn

\* no callback, size < 2, "^(" never closed, nothing to raise ("^()" is 3)
SuperscriptNone ==
    /\ In("char_superscript", "start")
    /\ \E r \in {0, 3} :
          /\ r = 3 => "superscript" \in renderer
          /\ Return(r, {})
    /\ idle /\ UNCHANGED <<work_bufs, fuel>>
    /\ calls' = now

SuperscriptOpen ==
    /\ In("char_superscript", "start")
    /\ "superscript" \in renderer
    /\ LET a == Acquire(At_(Top, "render"), work_bufs, <<BUFFER_SPAN>>)
       IN Call(a.f, Callee("parse_inline", "guard", a.wb)) /\ work_bufs' = a.wb
    /\ idle /\ UNCHANGED fuel
    /\ calls' = now /\ lastret' = NoReturn

SuperscriptRender ==
    /\ In("char_superscript", "render")
    /\ calls' = Record(now, Ev("superscript"))
    /\ work_bufs' = popbuf(work_bufs, BUFFER_SPAN)
    /\ Return(1, {})
    /\ idle /\ UNCHANGED fuel

(***************************************************************************)
(* char_link                                                               *)
(***************************************************************************)
\* the ids a bracketed text may carry
LinkIds == {<<CH.a>>, <<CH.A>>, <<CH.b>>}

\* the index in footnotes_found of the first footnote with the id's hash, or 0
find_footnote_ref(list, name) ==
    LET hits == {k \in 1..Len(list) : list[k].id = hash_link_ref(name)}
    IN IF hits = {} THEN 0 ELSE CHOOSE k \in hits : \A m \in hits : k <= m

\* a "cleanup:" that leaves the SPAN top where the function raised it
cleanup_kept(wb, org_work_size) == wb

\* "cleanup:": the SPAN top goes back to org_work_size
cleanup(wb, org_work_size) == [wb EXCEPT ![BUFFER_SPAN] = org_work_size]

\* is_img = (offset && data[-1] == '!')
CharLink ==
    /\ \E is_img \in BOOLEAN :
          Handler("bracket", [Frame("char_link", "start") EXCEPT !.img = is_img])
    /\ idle /\ UNCHANGED work_bufs
    /\ calls' = now /\ lastret' = NoReturn

link_renderer(f) == IF f.img THEN "image" \in renderer ELSE "link" \in renderer

\* no renderer for it; no closing bracket; "[^]"; "(" or "[" never closed
LinkFail ==
    /\ In("char_link", "start")
    /\ work_bufs' = cleanup(work_bufs, Top.entry[BUFFER_SPAN])
    /\ Return(0, {})
    /\ idle /\ UNCHANGED fuel
    /\ calls' = now

\* where a footnote reference is met: in the text, or in the contents of a
\* footnote while parse_footnote_list renders the used footnotes
where ==
    IF \E k \in 1..Len(stack) : stack[k].fn = "parse_footnote_list"
    THEN {"tail"} ELSE {}

\* "[^id]" with FOOTNOTES: the footnote is marked used on its first reference
LinkFootnote ==
    /\ In("char_link", "start")
    /\ link_renderer(Top)
    /\ "FOOTNOTES" \in ext_flags
    /\ \E id \in LinkIds, r \in {0, 1} :
          LET fr == find_footnote_ref(footnotes_found, id)
              first == fr # 0 /\ ~footnotes_found[fr].is_used
              used == IF first THEN add_footnote_ref(footnotes_used, fr)
                      ELSE footnotes_used
              found == IF first
                       THEN [footnotes_found EXCEPT
                                ![fr].is_used = TRUE, ![fr].num = Len(used)]
                       ELSE footnotes_found
              render == fr # 0 /\ "footnote_ref" \in renderer
          IN /\ footnotes_found' = found
             /\ footnotes_used' = used
             /\ calls' = IF render
                         THEN Record(now, [cb |-> "footnote_ref",
                                             num |-> found[fr].num,
                                             flags |-> where, fn |-> fr])
                         ELSE now
             /\ render \/ r = 0
             /\ Return(r, {})
    /\ work_bufs' = cleanup(work_bufs, Top.entry[BUFFER_SPAN])
    /\ UNCHANGED <<static, pc, in_link_body, fuel>>

\* "[text](link "title")": the link and the title, if not empty, get a buffer
LinkInline ==
    /\ In("char_link", "start")
    /\ link_renderer(Top)
    /\ \E has_link \in BOOLEAN, has_title \in BOOLEAN :
          LET a == Acquire([Top EXCEPT !.pc = "content", !.link = has_link],
                           work_bufs,
                           (IF has_link THEN <<BUFFER_SPAN>> ELSE <<>>)
                           \o (IF has_title THEN <<BUFFER_SPAN>> ELSE <<>>))
          IN Goto(a.f) /\ work_bufs' = a.wb
    /\ idle /\ UNCHANGED fuel
    /\ calls' = now /\ lastret' = NoReturn

\* "[text][id]", "[text][]", "[text]": the id (rebuilt in a buffer if the
\* text spans lines) is looked up in the reference table
LinkReference ==
    /\ In("char_link", "start")
    /\ link_renderer(Top)
    /\ \E id \in LinkIds, text_has_nl \in BOOLEAN :
          LET lr == find_link_ref(refs, hash_link_ref(id))
              a == Acquire([Top EXCEPT !.pc = IF lr = <<>> THEN "cleanup" ELSE "content",
                                       !.link = lr # <<>>],
                           work_bufs,
                           IF text_has_nl THEN <<BUFFER_SPAN>> ELSE <<>>)
          IN Goto(a.f) /\ work_bufs' = a.wb
    /\ idle /\ UNCHANGED fuel
    /\ calls' = now /\ lastret' = NoReturn

\* if (!lr) goto cleanup
LinkUnknown ==
    /\ In("char_link", "cleanup")
    /\ work_bufs' = cleanup(work_bufs, Top.entry[BUFFER_SPAN])
    /\ Return(0, {})
    /\ idle /\ UNCHANGED fuel
    /\ calls' = now

\* the display text of a link is parsed with in_link_body = 1
LinkContent ==
    /\ In("char_link", "content")
    /\ ~Top.img
    /\ LET a == Acquire(At_(Top, "after_content"), work_bufs, <<BUFFER_SPAN>>)
       IN /\ Call(a.f, [Callee("parse_inline", "guard", a.wb) EXCEPT !.ilb = TRUE])
          /\ work_bufs' = a.wb
    /\ in_link_body' = TRUE
    /\ UNCHANGED <<static, pc, foot, fuel>>
    /\ calls' = now /\ lastret' = NoReturn

\* ... in_link_body = 0; u_link
LinkAfterContent ==
    /\ In("char_link", "after_content")
    /\ in_link_body' = FALSE
    /\ LET a == Acquire(At_(Top, "render"), work_bufs,
                        IF Top.link THEN <<BUFFER_SPAN>> ELSE <<>>)
       IN Goto(a.f) /\ work_bufs' = a.wb
    /\ UNCHANGED <<static, pc, foot, fuel>>
    /\ calls' = now /\ lastret' = NoReturn

\* an image (its alt text is copied), or an empty text; u_link
LinkPlain ==
    /\ In("char_link", "content")
    /\ \E has_text \in BOOLEAN :
          /\ has_text => Top.img
          /\ LET a == Acquire(At_(Top, "render"), work_bufs,
                              (IF has_text THEN <<BUFFER_SPAN>> ELSE <<>>)
                              \o (IF Top.link THEN <<BUFFER_SPAN>> ELSE <<>>))
             IN Goto(a.f) /\ work_bufs' = a.wb
    /\ idle /\ UNCHANGED fuel
    /\ calls' = now /\ lastret' = NoReturn

LinkRender ==
    /\ In("char_link", "render")
    /\ calls' = Record(now, Ev(IF Top.img THEN "image" ELSE "link"))
    /\ work_bufs' = cleanup(work_bufs, Top.entry[BUFFER_SPAN])
    /\ \E r \in {0, 1} : Return(r, {})
    /\ idle /\ UNCHANGED fuel

(***************************************************************************)
(* parse_inline on the bytes of a span.  The frame of such a call keeps    *)
(* the span (data), the positions i and end, the output buffer the caller  *)
(* passed (ob) and the bytes last handed to normal_text (work).  A handler *)
(* that only reads the span and calls the renderer runs in the step that   *)
(* dispatches it; an autolink handler takes two steps, its scanner and its *)
(* callback.                                                               *)
(***************************************************************************)
\* the byte that is the active character c, as a byte of the span
char_of(byte) ==
    CASE byte = 42 -> "star"       [] byte = 95 -> "underscore"
      [] byte = 126 -> "tilde"     [] byte = 61 -> "equals"
      [] byte = 96 -> "backtick"   [] byte = 10 -> "newline"
      [] byte = 91 -> "bracket"    [] byte = 60 -> "langle"
      [] byte = 92 -> "backslash"  [] byte = 38 -> "amp"
      [] byte = 58 -> "colon"      [] byte = 64 -> "at"
      [] byte = 119 -> "w"         [] byte = 94 -> "caret"
      [] byte = 34 -> "dquote"     [] OTHER -> ""

\* md->active_char[byte] != 0
active(byte) == active_char(char_of(byte)) # ""

\* escape_chars = "\\`*_{}[]()#+-.!:|&<>^~"
escape_chars == {92, 96, 42, 95, 123, 125, 91, 93, 40, 41, 35, 43, 45, 46, 33, 58,
                 124, 38, 60, 62, 94, 126}

\* strchr(s, c) != NULL: the terminating null character of s is part of s
strchr(s, c) == c \in s \/ c = 0

\* isalnum() on one byte (C locale)
isalnum(c) == (c >= 48 /\ c <= 57) \/ (c >= 65 /\ c <= 90) \/ (c >= 97 /\ c <= 122)

\* a hoedown_buffer: its bytes and its size.  A size_t is kept as its
\* two's-complement representative: a negative n stands for 2^64 + n, so that
\* "size -= n" is the subtraction of the code also when it wraps around.
Buf(bytes) == [bytes |-> bytes, size |-> Len(bytes)]

\* the size has not wrapped around
sound(ob) == ob.size >= 0

\* ob->size -= rewind
rewound(ob, rewind) ==
    IF rewind <= ob.size THEN Buf(SubSeq(ob.bytes, 1, ob.size - rewind))
    ELSE [bytes |-> <<>>, size |-> ob.size - rewind]

\* hoedown_buffer_put / hoedown_buffer_putc: the bytes are copied to
\* ob->data + ob->size and the size grows by their number.  With a size that
\* has wrapped around the copy starts outside the buffer; if the process
\* survives it (see SpanWild), what is left in the buffer is what came to lie
\* at ob->data and after.
put(ob, bytes) ==
    IF sound(ob) THEN Buf(ob.bytes \o bytes)
    ELSE IF ob.size + Len(bytes) < 0
    THEN [bytes |-> <<>>, size |-> ob.size + Len(bytes)]
    ELSE Buf(SubSeq(bytes, 1 - ob.size, Len(bytes)))

\* what a callback writes for a construct it renders stands for its rendering
rendering == [linebreak |-> 200, codespan |-> 201, autolink |-> 202, link |-> 203,
              entity |-> 204]

\* what normal_text may write for the bytes it is handed: the bytes, or nothing
normal_text(bytes) == {bytes, <<>>}

\* a callback that returned 0 ("did not render")
Declined(name) == EvFlags(name, {"declined"})

\* the frame of a parse_inline called on data with an empty output buffer
Span(data) ==
    [fn |-> "parse_inline", pc |-> "guard", entry |-> work_bufs, ilb |-> in_link_body,
     held |-> <<>>, abs |-> FALSE, lines |-> <<>>, c |-> "", flags |-> {},
     img |-> FALSE, link |-> FALSE, num |-> 0, item |-> 0,
     data |-> data, i |-> 0, end |-> 0, ob |-> Buf(<<>>), work |-> <<>>,
     link_len |-> 0]

OnBytes(at) == In("parse_inline", at) /\ ~Top.abs

\* while (end < size && active_char[data[end]] == 0) end++;
RECURSIVE inactive_run(_, _)
inactive_run(data, end) ==
    IF end < Len(data) /\ ~active(At(data, end)) THEN inactive_run(data, end + 1)
    ELSE end

\* the size of the output buffer has wrapped around: what is written next is
\* written outside the buffer, and the process may die there
SpanWild ==
    /\ Running /\ Top.fn = "parse_inline" /\ ~Top.abs
    /\ Top.pc \in {"loop", "disp", "in_url", "in_email", "in_www"}
    /\ ~sound(Top.ob)
    /\ Crash /\ UNCHANGED fuel

\* the run of inactive characters goes to normal_text, or into ob as it is
SpanText ==
    /\ OnBytes("loop") /\ Top.i < Len(Top.data)
    /\ LET end == inactive_run(Top.data, Top.end)
           run == Slice(Top.data, Top.i, end)
           f == [Top EXCEPT !.pc = "disp", !.end = end]
       IN IF "normal_text" \in renderer
          THEN /\ \E out \in normal_text(run) :
                     Goto([f EXCEPT !.work = run, !.ob = put(@, out)])
               /\ calls' = Record(now, Ev("normal_text"))
          ELSE /\ Goto([f EXCEPT !.ob = put(@, run)])
               /\ calls' = Record(now, Ev(RawPut))
    /\ lastret' = NoReturn
    /\ idle /\ UNCHANGED <<work_bufs, fuel>>

\* i >= size at the head of the loop, or end >= size after the run
SpanEnd ==
    /\ \/ OnBytes("loop") /\ Top.i >= Len(Top.data)
       \/ OnBytes("disp") /\ Top.end >= Len(Top.data)
    /\ Return(0, {})
    /\ idle /\ UNCHANGED <<work_bufs, fuel>>
    /\ calls' = now

\* an active character is at data[end], and its handler is fn
Met(fn) ==
    /\ OnBytes("disp") /\ Top.end < Len(Top.data)
    /\ active_char(char_of(At(Top.data, Top.end))) = fn

\* the frame after the handler called at data[end] returned r (parse_inline's
\* "if (!end) end = i + 1; else { i += end; end = i; }" after "i = end")
after_handler(f, r) ==
    IF r = 0 THEN [f EXCEPT !.pc = "loop", !.i = f.end, !.end = f.end + 1]
    ELSE [f EXCEPT !.pc = "loop", !.i = f.end + r, !.end = f.end + r]

Returned(fn, f, r) ==
    /\ Goto(after_handler(f, r))
    /\ lastret' = [fn |-> fn, ret |-> r, flags |-> {}]

\* char_escape on data + end, size - end
SpanEscape ==
    /\ Met("char_escape")
    /\ LET size == Len(Top.data) - Top.end
           next == At(Top.data, Top.end + 1)
       IN IF size > 1
          THEN IF ~strchr(escape_chars, next)
               THEN Returned("char_escape", Top, 0) /\ calls' = now
               ELSE IF "normal_text" \in renderer
               THEN /\ \E out \in normal_text(<<next>>) :
                          Returned("char_escape",
                                   [Top EXCEPT !.work = <<next>>, !.ob = put(@, out)], 2)
                    /\ calls' = Record(now, Ev("normal_text"))
               ELSE /\ Returned("char_escape", [Top EXCEPT !.ob = put(@, <<next>>)], 2)
                    /\ calls' = Record(now, Ev(RawPut))
          ELSE /\ Returned("char_escape",
                           [Top EXCEPT !.ob = put(@, <<At(Top.data, Top.end)>>)], 2)
               /\ calls' = Record(now, Ev(RawPut))
    /\ idle /\ UNCHANGED <<work_bufs, fuel>>

\* while (ob->size && ob->data[ob->size - 1] == ' ') ob->size--;
RECURSIVE trimmed(_)
trimmed(ob) ==
    IF ob.size > 0 /\ ob.bytes[ob.size] = CH.sp
    THEN trimmed(Buf(SubSeq(ob.bytes, 1, ob.size - 1))) ELSE ob

\* char_linebreak on data + end, offset = end
SpanLinebreak ==
    /\ Met("char_linebreak")
    /\ IF Top.end < 2 \/ At(Top.data, Top.end - 1) # CH.sp
                      \/ At(Top.data, Top.end - 2) # CH.sp
       THEN Returned("char_linebreak", Top, 0) /\ calls' = now
       ELSE \/ /\ calls' = Record(now, Ev("linebreak"))
               /\ Returned("char_linebreak",
                           [Top EXCEPT !.ob = put(trimmed(@),
                                                  <<rendering.linebreak>>)], 1)
            \/ /\ calls' = Record(now, Declined("linebreak"))
               /\ Returned("char_linebreak",
                           [Top EXCEPT !.ob = trimmed(@)], 0)
    /\ idle /\ UNCHANGED <<work_bufs, fuel>>

\* the delimiter search of char_codespan: [end, i]
RECURSIVE next_delimiter(_, _, _, _)
next_delimiter(data, end, i, nb) ==
    IF end < Len(data) /\ i < nb
    THEN next_delimiter(data, end + 1, IF At(data, end) = 96 THEN i + 1 ELSE 0, nb)
    ELSE [end |-> end, i |-> i]

\* char_codespan on data (the span from the backtick on): 0 when there is no
\* matching delimiter, else the length of the code span
codespan_end(data) ==
    LET nb == SkipWhile(data, 0, Len(data), {96})
        d == next_delimiter(data, nb, 0, nb)
    IN IF d.i < nb /\ d.end >= Len(data) THEN 0 ELSE d.end

\* while (f_end > nb && data[f_end-1] == ' ') f_end--;
RECURSIVE trim_back(_, _, _)
trim_back(data, f_end, nb) ==
    IF f_end > nb /\ At(data, f_end - 1) = CH.sp THEN trim_back(data, f_end - 1, nb)
    ELSE f_end

\* "trimming outside whitespaces" with one space trimmed on each side, and only
\* when the other side has one too
code_text_paired(data, nb, end) ==
    IF end - nb > nb + 1 /\ At(data, nb) = CH.sp /\ At(data, end - nb - 1) = CH.sp
    THEN Slice(data, nb + 1, end - nb - 1)
    ELSE Slice(data, nb, end - nb)

\* the text char_codespan hands to the callback for the code span data[0..end)
\* with delimiters of nb backticks: f_begin goes up over the spaces, f_end
\* down; <<>> stands for the null text of "codespan(ob, 0, opaque)"
code_text(data, nb, end) ==
    LET f_begin == SkipWhile(data, nb, end, {CH.sp})
        f_end == trim_back(data, end - nb, nb)
    IN IF f_begin < f_end THEN Slice(data, f_begin, f_end) ELSE <<>>

SpanCodespan ==
    /\ Met("char_codespan")
    /\ LET data == Slice(Top.data, Top.end, Len(Top.data))
           nb == SkipWhile(data, 0, Len(data), {96})
           end == codespan_end(data)
           f == [Top EXCEPT !.work = code_text(data, nb, end)]
       IN IF end = 0 THEN Returned("char_codespan", Top, 0) /\ calls' = now
          ELSE \/ /\ calls' = Record(now, Ev("codespan"))
                  /\ Returned("char_codespan",
                              [f EXCEPT !.ob = put(@, <<rendering.codespan>>)], end)
               \/ /\ calls' = Record(now, Declined("codespan"))
                  /\ Returned("char_codespan", f, 0)
    /\ idle /\ UNCHANGED <<work_bufs, fuel>>

\* char_entity on data (the span from the '&' on): 0 for a lone '&', else the
\* length of the entity
entity_end(data) ==
    LET e1 == IF 1 < Len(data) /\ At(data, 1) = 35 THEN 2 ELSE 1
        e2 == IF e1 < Len(data) /\ isalnum(At(data, e1))
              THEN SkipUntil(data, e1, Len(data), {c \in 0..255 : ~isalnum(c)})
              ELSE e1
    IN IF e2 < Len(data) /\ At(data, e2) = 59 THEN e2 + 1 ELSE 0

SpanEntity ==
    /\ Met("char_entity")
    /\ LET rest == Slice(Top.data, Top.end, Len(Top.data))
           end == entity_end(rest)
       IN IF end = 0 THEN Returned("char_entity", Top, 0) /\ calls' = now
          ELSE IF "entity" \in renderer
          THEN /\ calls' = Record(now, Ev("entity"))
               /\ Returned("char_entity",
                           [Top EXCEPT !.ob = put(@, <<rendering.entity>>)], end)
          ELSE /\ calls' = Record(now, Ev(RawPut))
               /\ Returned("char_entity",
                           [Top EXCEPT !.ob = put(@, SubSeq(rest, 1, end))], end)
    /\ idle /\ UNCHANGED <<work_bufs, fuel>>

\* what an autolink scanner may answer for a span of size bytes met at offset:
\* no link, or the length of the link and the number of bytes before it that
\* are part of it
Scans(offset, size) ==
    {[link_len |-> 0, rewind |-> 0]}
    \cup {[link_len |-> n, rewind |-> r] : n \in 1..size, r \in 0..offset}

\* an autolink handler without its callback (or in the text of a link)
Unlinked(fn, callback) ==
    /\ Met(fn) /\ suppressed(callback)
    /\ Returned(fn, Top, 0)
    /\ calls' = now
    /\ idle /\ UNCHANGED <<work_bufs, fuel>>

\* an autolink handler up to its callback: link = newbuf(), the scanner,
\* ob->size -= rewind (bufs: the buffers it holds when it calls back)
Scanned(fn, callback, at, bufs) ==
    /\ Met(fn) /\ ~suppressed(callback)
    /\ \E s \in Scans(Top.end, Len(Top.data) - Top.end) :
          IF s.link_len = 0
          THEN Returned(fn, Top, 0) /\ UNCHANGED work_bufs
          ELSE LET a == Acquire([Top EXCEPT !.pc = at, !.link_len = s.link_len,
                                            !.ob = rewound(@, s.rewind)],
                                work_bufs, bufs)
               IN Goto(a.f) /\ work_bufs' = a.wb /\ lastret' = NoReturn
    /\ calls' = now
    /\ idle /\ UNCHANGED fuel

\* the calls an autolink handler makes once its scanner found a link (first:
\* the history after what it called before the callback); it returns link_len
\* whatever the callback returned
Linked(fn, callback, at, first) ==
    /\ OnBytes(at)
    /\ LET f == [Top EXCEPT !.held = <<>>]
       IN \/ /\ calls' = Record(first, Ev(callback))
             /\ Returned(fn, [f EXCEPT !.ob = put(@, <<rendering[callback]>>)],
                         Top.link_len)
          \/ /\ calls' = Record(first, Declined(callback))
             /\ Returned(fn, f, Top.link_len)
    /\ work_bufs' = [work_bufs EXCEPT ![BUFFER_SPAN] = @ - Len(Top.held)]
    /\ idle /\ UNCHANGED fuel

SpanUrlSuppressed == Unlinked("char_autolink_url", "autolink")
SpanUrlScan == Scanned("char_autolink_url", "autolink", "in_url", <<BUFFER_SPAN>>)
SpanUrlRender == Linked("char_autolink_url", "autolink", "in_url", now)

SpanEmailSuppressed == Unlinked("char_autolink_email", "autolink")
SpanEmailScan == Scanned("char_autolink_email", "autolink", "in_email", <<BUFFER_SPAN>>)
SpanEmailRender == Linked("char_autolink_email", "autolink", "in_email", now)

\* char_autolink_www: link, link_url, and link_text if there is a normal_text
\* callback (it is handed the link, and writes into link_text)
SpanWwwSuppressed == Unlinked("char_autolink_www", "link")
SpanWwwScan ==
    Scanned("char_autolink_www", "link", "in_www",
            IF "normal_text" \in renderer
            THEN <<BUFFER_SPAN, BUFFER_SPAN, BUFFER_SPAN>>
            ELSE <<BUFFER_SPAN, BUFFER_SPAN>>)
SpanWwwRender ==
    Linked("char_autolink_www", "link", "in_www", Guarded(now, <<Ev("normal_text")>>))

\* the spans parse_inline is run on byte by byte: each is the text of a
\* paragraph that is the whole document
EscapeSpans ==
    {<<CH.bs, b>> : b \in escape_chars \cup {CH.nul, CH.x, CH.sp, CH.at}}
    \cup {<<CH.bs>>, <<CH.x, CH.bs>>, <<CH.bs, CH.bs, CH.x>>, <<CH.bs, CH.x, CH.bs, 42>>}
LinebreakSpans ==
    {<<CH.x, CH.sp, CH.sp, CH.lf, CH.x>>, <<CH.x, CH.sp, CH.lf, CH.x>>,
     <<CH.x, CH.sp, CH.sp, CH.sp, CH.lf, CH.x>>, <<CH.x, CH.lf, CH.x>>}
CodeSpans ==
    {<<CH.bt, CH.x, CH.bt>>, <<CH.bt, CH.x>>, <<CH.bt, CH.sp, CH.bt>>,
     <<CH.x, CH.bt, CH.bt>>, <<CH.bt, CH.bt, CH.x, CH.bt, CH.x, CH.bt, CH.bt>>,
     <<CH.bt, CH.x, CH.bt, CH.bt>>, <<CH.bt, CH.x, CH.bt, CH.bt, CH.x, CH.bt>>,
     <<CH.bt, CH.bt, CH.x, CH.bt, CH.bt, CH.bt>>,
     <<CH.bt, CH.sp, CH.x, CH.sp, CH.bt>>, <<CH.bt, CH.sp, CH.x, CH.bt>>,
     <<CH.bt, CH.x, CH.sp, CH.bt>>, <<CH.bt, CH.sp, CH.sp, CH.x, CH.sp, CH.sp, CH.bt>>,
     <<CH.bt, CH.sp, CH.sp, CH.bt>>, <<CH.bt, CH.x, CH.sp, CH.x, CH.bt>>}
EntitySpans ==
    {<<CH.amp, CH.x, CH.semi>>, <<CH.amp, CH.x>>, <<CH.amp, CH.hash, CH.x, CH.semi>>,
     <<CH.amp, CH.semi>>, <<CH.x, CH.amp>>}
AutolinkSpans ==
    {<<CH.x, CH.at, CH.x>>, <<CH.x, CH.x, CH.colon, CH.x>>, <<CH.x, CH.sp, CH.w, CH.x>>,
     <<CH.x, CH.at>>}
Spans == EscapeSpans \cup LinebreakSpans \cup CodeSpans \cup EntitySpans \cup AutolinkSpans

SpanInstances ==
    {Instance(AllCallbacks, AllExtensions \ {"FOOTNOTES", "DISABLE_INDENTED_CODE"}, 2),
     Instance({"paragraph", "linebreak", "codespan", "autolink", "link"}, {"AUTOLINK"}, 1),
     Instance({"paragraph", "normal_text", "doc_header"}, {"AUTOLINK"}, 1)}

SpanRuns == {Run(d \o <<CH.lf>>, inst) : d \in Spans, inst \in SpanInstances}

\* render at the point where parse_paragraph, called by parse_block on the
\* one paragraph of the text, calls parse_inline on the paragraph without its
\* last newline, with the buffer it acquired as ob
SpanInit ==
    /\ \E run \in SpanRuns :
          /\ document = run.doc
          /\ renderer = run.inst.renderer
          /\ ext_flags = run.inst.ext
          /\ max_nesting = run.inst.max_nesting
    /\ refs = [k \in 0..(REF_TABLE_SIZE - 1) |-> <<>>]
    /\ footnotes_found = <<>>
    /\ footnotes_used = <<>>
    /\ work_bufs = newbuf([t \in TypeBufs |-> 0], BUFFER_BLOCK)
    /\ in_link_body = FALSE
    /\ pc = "footnotes"
    /\ beg = Len(document)
    /\ text = document
    /\ stack = <<[Concrete(<<>>) EXCEPT !.pc = "loop", !.entry = [t \in TypeBufs |-> 0]],
                 [Frame("parse_paragraph", "render") EXCEPT
                     !.entry = [t \in TypeBufs |-> 0],
                     !.held = <<<<BUFFER_BLOCK, 0>>>>],
                 Span(SubSeq(document, 1, Len(document) - 1))>>
    /\ calls = [seq |-> IF "doc_header" \in renderer THEN <<Ev("doc_header")>> ELSE <<>>,
                step |-> <<>>]
    /\ fuel = 0
    /\ lastret = NoReturn

(***************************************************************************)
(* find_emph_char                                                          *)
(***************************************************************************)
\* "if (!tmp_i && data[i] == c) tmp_i = i" over data[from..to): tmp_i after it
first_emph(data, from, to, c, tmp_i) ==
    IF tmp_i # 0 THEN tmp_i
    ELSE LET i == SkipUntil(data, from, to, {c}) IN IF i < to THEN i ELSE 0

\* "finding the matching closing sequence": [i, tmp_i] after the loop
RECURSIVE emph_closing(_, _, _, _, _, _, _)
emph_closing(data, size, c, i, bt, span_nb, tmp_i) ==
    IF i < size /\ bt < span_nb
    THEN emph_closing(data, size, c, i + 1, IF At(data, i) = CH.bt THEN bt + 1 ELSE 0,
                      span_nb, IF tmp_i = 0 /\ At(data, i) = c THEN i ELSE tmp_i)
    ELSE [i |-> i, tmp_i |-> tmp_i]

RECURSIVE emph_loop(_, _, _, _)
\* the branch "if (data[i] == '`')"
emph_codespan(data, size, c, at) ==
    LET i == SkipWhile(data, at, size, {CH.bt})
        e == emph_closing(data, size, c, i, 0, i - at, 0)
    IN IF i >= size THEN 0
       ELSE IF e.i >= size THEN e.tmp_i
       ELSE emph_loop(data, size, c, e.i)

\* the branch "skipping a link"
emph_link(data, size, c, at) ==
    LET close == SkipUntil(data, at + 1, size, {CH.rb})
        tmp_i == first_emph(data, at + 1, close, c, 0)
        i == SkipWhile(data, close + 1, size, {CH.sp, CH.lf})
        cc == IF At(data, i) = CH.lb THEN CH.rb ELSE CH.rp
        end == SkipUntil(data, i + 1, size, {cc})
    IN IF i >= size THEN tmp_i
       ELSE IF At(data, i) \notin {CH.lb, CH.lp}
       THEN IF tmp_i # 0 THEN tmp_i ELSE emph_loop(data, size, c, i)
       ELSE IF end >= size THEN first_emph(data, i + 1, end, c, tmp_i)
       ELSE emph_loop(data, size, c, end + 1)

\* one turn of "while (i < size)"
emph_loop(data, size, c, from) ==
    LET i == SkipUntil(data, from, size, {c, CH.lb})
    IN IF from >= size \/ i = size THEN 0
       ELSE IF At(data, i) = c THEN i
       ELSE IF i > 0 /\ At(data, i - 1) = CH.bs THEN emph_loop(data, size, c, i + 1)
       ELSE IF At(data, i) = CH.bt THEN emph_codespan(data, size, c, i)
       ELSE emph_link(data, size, c, i)

find_emph_char(data, size, c) == emph_loop(data, size, c, 1)

\* the texts find_emph_char is run on: the delimiter c, then up to MaxPieces of
\* these pieces
MaxPieces == 3
EmphPieces(c) ==
    {<<CH.x>>, <<c>>, <<CH.sp>>, <<CH.bt>>, <<CH.lb>>, <<CH.bs, c>>, <<CH.bs, CH.lb>>,
     <<CH.bt, c, CH.bt>>, <<CH.bt, CH.bt, c, CH.bt, CH.bt>>,
     <<CH.lb, c, CH.rb>>, <<CH.lb, c, CH.rb, CH.lp, CH.x, CH.rp>>,
     <<CH.lb, CH.x, CH.rb, CH.lp, c, CH.rp>>, <<CH.lb, CH.x, CH.rb, CH.lb, c, CH.rb>>,
     <<CH.lb, CH.x, CH.rb, CH.sp, CH.lp, c, CH.rp>>, <<CH.lb, CH.x, CH.rb, CH.lp, c>>}
EmphTexts(c) == {<<c>> \o Flatten(ps) : ps \in SeqsUpTo(EmphPieces(c), MaxPieces)}

\* find_emph_char called on a text, and returned
EmphInit ==
    /\ document = <<>>
    /\ renderer = {}
    /\ ext_flags = {}
    /\ max_nesting = 1
    /\ refs = [k \in 0..(REF_TABLE_SIZE - 1) |-> <<>>]
    /\ footnotes_found = <<>>
    /\ footnotes_used = <<>>
    /\ work_bufs = [t \in TypeBufs |-> 0]
    /\ in_link_body = FALSE
    /\ pc = "footnotes"
    /\ beg = 0
    /\ text = <<>>
    /\ \E c \in {42, 95} : \E data \in EmphTexts(c) :
          stack = <<[fn |-> "find_emph_char", pc |-> "call", data |-> data, c |-> c]>>
    /\ calls = [seq |-> <<>>, step |-> <<>>]
    /\ fuel = 0
    /\ lastret = NoReturn

FindEmphChar ==
    /\ In("find_emph_char", "call")
    /\ Goto([Top EXCEPT !.pc = "returned"])
    /\ lastret' = [fn |-> "find_emph_char",
                   ret |-> find_emph_char(Top.data, Len(Top.data), Top.c), flags |-> {}]
    /\ calls' = now
    /\ idle /\ UNCHANGED <<work_bufs, fuel>>

EmphSpec == EmphInit /\ [][FindEmphChar]_vars

(***************************************************************************)
(* Lists and fenced code on the bytes of the text                          *)
(***************************************************************************)
Rest(data, i) == Slice(data, i, Len(data))
Least(a, b) == IF a < b THEN a ELSE b
_isspace(c) == c = CH.sp \/ c = CH.lf
Digits == 48..57

\* is_headerline: 1 for a line of '=', 2 for a line of '-', else 0
headerline_of(data, c, i) ==
    IF i >= Len(data) \/ At(data, i) = CH.lf THEN (IF c = 61 THEN 1 ELSE 2) ELSE 0

is_headerline(data) ==
    IF At(data, 0) \in {61, 45}
    THEN headerline_of(data, At(data, 0),
                       SkipWhile(data, SkipWhile(data, 1, Len(data), {At(data, 0)}),
                                 Len(data), {CH.sp}))
    ELSE 0

next_headerline_at(data, i) ==
    IF i >= Len(data) THEN 0 ELSE is_headerline(Rest(data, i))

is_next_headerline(data) ==
    next_headerline_at(data, SkipUntil(data, 0, Len(data), {CH.lf}) + 1)

\* prefix_oli after the digits, at j
oli_dot(data, j) ==
    IF j + 1 >= Len(data) \/ At(data, j) # 46 \/ At(data, j + 1) # CH.sp THEN 0
    ELSE IF is_next_headerline(Rest(data, j)) # 0 THEN 0
    ELSE j + 2

\* prefix_oli after the spaces, at i
oli_digits(data, i) ==
    IF i >= Len(data) \/ At(data, i) \notin Digits THEN 0
    ELSE oli_dot(data, SkipWhile(data, i, Len(data), Digits))

prefix_oli(data) == oli_digits(data, SkipWhile(data, 0, Least(3, Len(data)), {CH.sp}))

\* prefix_uli after the spaces, at i
uli_mark(data, i) ==
    IF i + 1 >= Len(data) \/ At(data, i) \notin {42, 43, 45} \/ At(data, i + 1) # CH.sp
    THEN 0
    ELSE IF is_next_headerline(Rest(data, i)) # 0 THEN 0
    ELSE i + 2

prefix_uli(data) == uli_mark(data, SkipWhile(data, 0, Least(3, Len(data)), {CH.sp}))

\* "the whole line must be the char or whitespace": n, or -1 for another byte
RECURSIVE hrule_count(_, _, _, _)
hrule_count(data, i, c, n) ==
    IF i < Len(data) /\ At(data, i) # CH.lf
    THEN IF At(data, i) = c THEN hrule_count(data, i + 1, c, n + 1)
         ELSE IF At(data, i) # CH.sp THEN -1
         ELSE hrule_count(data, i + 1, c, n)
    ELSE n

\* is_hrule after the spaces, at i
hrule_char(data, i) ==
    IF i + 2 >= Len(data) \/ At(data, i) \notin {42, 45, 95} THEN FALSE
    ELSE hrule_count(data, i, At(data, i), 0) >= 3

is_hrule(data) ==
    IF Len(data) < 3 THEN FALSE ELSE hrule_char(data, SkipWhile(data, 0, 3, {CH.sp}))

\* prefix_codefence: the fence is data[i..j)
codefence_width(i, j) == IF j - i < 3 THEN 0 ELSE j

codefence_char(data, i) ==
    IF i + 2 >= Len(data) \/ At(data, i) \notin {126, CH.bt} THEN 0
    ELSE codefence_width(i, SkipWhile(data, i, Len(data), {At(data, i)}))

prefix_codefence(data) ==
    IF Len(data) < 3 THEN 0 ELSE codefence_char(data, SkipWhile(data, 0, 3, {CH.sp}))

\* "strip all whitespace at the beginning and the end of the {} block"
RECURSIVE stripped(_)
stripped(syn) ==
    IF syn # <<>> /\ _isspace(Head(syn)) THEN stripped(Tail(syn))
    ELSE IF syn # <<>> /\ _isspace(syn[Len(syn)]) THEN stripped(SubSeq(syn, 1, Len(syn) - 1))
    ELSE syn

NoFence == [len |-> 0, syntax |-> <<>>]

\* is_codefence: nothing but spaces up to the end of the line, at end
codefence_eol(data, end, syntax) ==
    IF end < Len(data) /\ At(data, end) # CH.lf THEN NoFence
    ELSE [len |-> end + 1, syntax |-> syntax]

codefence_trail(data, after, syntax) ==
    codefence_eol(data, SkipWhile(data, after, Len(data), {CH.sp}), syntax)

\* is_codefence: the syntax in braces, from i to close
codefence_braced(data, i, close) ==
    IF close = Len(data) \/ At(data, close) # 125 THEN NoFence
    ELSE codefence_trail(data, close + 1, stripped(Slice(data, i + 1, close)))

\* is_codefence: the syntax after the fence and the spaces, at i
codefence_lang(data, i) ==
    IF i < Len(data) /\ At(data, i) = 123
    THEN codefence_braced(data, i, SkipUntil(data, i + 1, Len(data), {125, CH.lf}))
    ELSE codefence_trail(data, SkipUntil(data, i, Len(data), {CH.sp, CH.lf}),
                         Slice(data, i, SkipUntil(data, i, Len(data), {CH.sp, CH.lf})))

codefence_syntax(data, i) ==
    IF i = 0 THEN NoFence ELSE codefence_lang(data, SkipWhile(data, i, Len(data), {CH.sp}))

\* is_codefence: the size of the fence line (0: not a fence) and its syntax
is_codefence(data) == codefence_syntax(data, prefix_codefence(data))

\* "while (end < size && data[end - 1] != '\n') end++;"
RECURSIVE line_end(_, _)
line_end(data, end) ==
    IF end < Len(data) /\ At(data, end - 1) # CH.lf THEN line_end(data, end + 1) ELSE end

\* a "checking for ul/ol switch" that does not ask for an empty line
ul_ol_switch_anywhere(in_empty, ordered, has_next_uli, has_next_oli) ==
    (ordered /\ has_next_uli # 0) \/ (~ordered /\ has_next_oli # 0)

\* "checking for ul/ol switch"
ul_ol_switch(in_empty, ordered, has_next_uli, has_next_oli) ==
    in_empty /\ ((ordered /\ has_next_uli # 0) \/ (~ordered /\ has_next_oli # 0))

RECURSIVE item_lines(_, _, _)
\* parse_listitem on the line data[st.beg + i, end) that is not empty
item_decide(data, fenced, st, end, i, line, in_fence, has_next_uli, has_next_oli) ==
    LET joined == [st EXCEPT !.in_fence = in_fence, !.in_empty = FALSE,
                             !.work = @ \o line, !.beg = end, !.end = end]
    IN IF ul_ol_switch(st.in_empty, "ORDERED" \in st.flags, has_next_uli, has_next_oli)
       THEN [st EXCEPT !.in_fence = in_fence, !.end = end, !.flags = @ \cup {"LI_END"}]
       ELSE IF (has_next_uli # 0 /\ ~is_hrule(line)) \/ has_next_oli # 0
       THEN IF i = st.orgpre
            THEN [st EXCEPT !.in_fence = in_fence, !.end = end,
                            !.has_inside_empty = @ \/ st.in_empty]
            ELSE item_lines(data, fenced,
                            [joined EXCEPT !.has_inside_empty = @ \/ st.in_empty,
                                           !.sublist = IF @ = 0 THEN Len(st.work) ELSE @])
       ELSE IF st.in_empty /\ i = 0
       THEN [st EXCEPT !.in_fence = in_fence, !.end = end, !.flags = @ \cup {"LI_END"}]
       ELSE IF st.in_empty
       THEN item_lines(data, fenced,
                       [joined EXCEPT !.has_inside_empty = TRUE,
                                      !.work = st.work \o <<CH.lf>> \o line])
       ELSE item_lines(data, fenced, joined)

\* "Only check for new list items if we are **not** inside a fenced code block"
item_next(data, fenced, st, end, i, line, in_fence) ==
    item_decide(data, fenced, st, end, i, line, in_fence,
                IF in_fence THEN 0 ELSE prefix_uli(line),
                IF in_fence THEN 0 ELSE prefix_oli(line))

item_fence(data, fenced, st, end, i, line) ==
    item_next(data, fenced, st, end, i, line,
              IF fenced /\ is_codefence(line).len # 0 THEN ~st.in_fence ELSE st.in_fence)

\* "process an empty line", "calculating the indentation"
item_line(data, fenced, st, end) ==
    IF is_empty(data, st.beg, end - st.beg) # 0
    THEN item_lines(data, fenced, [st EXCEPT !.in_empty = TRUE, !.beg = end, !.end = end])
    ELSE item_fence(data, fenced, st, end,
                    SkipWhile(data, st.beg, Least(st.beg + 4, end), {CH.sp}) - st.beg,
                    Slice(data, SkipWhile(data, st.beg, Least(st.beg + 4, end), {CH.sp}),
                          end))

\* parse_listitem's "process the following lines": the locals after the loop
item_lines(data, fenced, st) ==
    IF st.beg >= Len(data) THEN st
    ELSE item_line(data, fenced, st, line_end(data, st.end + 1))

\* "if (has_inside_empty) *flags |= HOEDOWN_LI_BLOCK;"
item_flags(st) ==
    st.flags \cup (IF st.has_inside_empty THEN {"LI_BLOCK"} ELSE {})

\* "render of li contents", "render of li itself"
listitem_render(st, fl) ==
    [taken |-> st.beg, flags |-> fl, rendered |-> TRUE, work |-> st.work,
     inside_empty |-> st.has_inside_empty,
     parser |-> IF "LI_BLOCK" \in fl THEN "parse_block" ELSE "parse_inline",
     sublist |-> IF st.sublist # 0 /\ st.sublist < Len(st.work) THEN st.sublist ELSE 0]

listitem_scanned(st) == listitem_render(st, item_flags(st))

\* "putting the first line into the working buffer"
listitem_first(data, fenced, flags, pre, first) ==
    listitem_scanned(item_lines(data, fenced,
        [beg |-> first, end |-> first, in_empty |-> FALSE,
         has_inside_empty |-> FALSE, in_fence |-> FALSE, sublist |-> 0,
         orgpre |-> SkipWhile(data, 0, Least(3, Len(data)), {CH.sp}),
         work |-> Slice(data, pre, first), flags |-> flags]))

listitem_prefix(data, fenced, flags, pre) ==
    IF pre = 0 THEN [taken |-> 0, flags |-> flags, rendered |-> FALSE]
    ELSE listitem_first(data, fenced, flags, pre, line_end(data, pre))

\* parse_listitem on data with *flags = flags: the bytes taken (0: no item),
\* *flags after it, the contents of the item, the parser its first part is
\* rendered with, and whether the listitem callback is reached
parse_listitem(data, fenced, flags) ==
    listitem_prefix(data, fenced, flags,
                    IF prefix_uli(data) # 0 THEN prefix_uli(data) ELSE prefix_oli(data))

RECURSIVE fenced_lines(_, _, _)
\* one line of a fenced block: a fence with nothing after it ends the block
fenced_line(data, from, work, fence, end) ==
    IF fence.len # 0 /\ fence.syntax = <<>>
    THEN [beg |-> from + fence.len, work |-> work]
    ELSE fenced_lines(data, end,
                      IF from < end
                      THEN (IF is_empty(data, from, end - from) # 0 THEN Append(work, CH.lf)
                            ELSE work \o Slice(data, from, end))
                      ELSE work)

\* parse_fencedcode's loop over the lines after the opening fence: [beg, work]
fenced_lines(data, from, work) ==
    IF from >= Len(data) THEN [beg |-> from, work |-> work]
    ELSE fenced_line(data, from, work, is_codefence(Rest(data, from)),
                     line_end(data, from + 1))

fenced_done(open, l) ==
    [taken |-> l.beg, lang |-> open.syntax,
     work |-> IF l.work # <<>> /\ l.work[Len(l.work)] # CH.lf
              THEN Append(l.work, CH.lf) ELSE l.work]

fenced_open(data, open) ==
    IF open.len = 0 THEN [taken |-> 0, work |-> <<>>, lang |-> <<>>]
    ELSE fenced_done(open, fenced_lines(data, open.len, <<>>))

\* parse_fencedcode: the bytes taken (0: no fence), the text and the language
\* handed to blockcode
parse_fencedcode(data) == fenced_open(data, is_codefence(data))

\* the lines lists and fenced blocks are made of here
ItemLines ==
    {<<45, CH.sp, CH.x, CH.lf>>, <<49, 46, CH.sp, CH.x, CH.lf>>}
ListLines ==
    ItemLines \cup
    {<<CH.lf>>, <<CH.x, CH.lf>>, <<CH.sp, CH.x, CH.lf>>,
     <<CH.sp, CH.sp, 45, CH.sp, CH.x, CH.lf>>, <<42, CH.sp, 42, CH.sp, 42, CH.lf>>,
     <<CH.bt, CH.bt, CH.bt, CH.lf>>}
MaxListLines == 4
ListTexts ==
    {l \o Flatten(ls) : l \in ItemLines, ls \in SeqsUpTo(ListLines, MaxListLines - 1)}

FenceLines ==
    {<<CH.bt, CH.bt, CH.bt, CH.lf>>, <<126, 126, 126, CH.lf>>,
     <<CH.bt, CH.bt, CH.bt, CH.sp, CH.x, CH.lf>>,
     <<CH.bt, CH.bt, CH.bt, CH.bt, CH.lf>>}
CodeLines ==
    FenceLines \cup {<<CH.x, CH.lf>>, <<CH.sp, CH.sp, CH.lf>>, <<CH.bt, CH.bt, CH.lf>>}
MaxCodeLines == 4
FencedTexts ==
    LET whole == {l \o Flatten(ls) :
                    l \in FenceLines, ls \in SeqsUpTo(CodeLines, MaxCodeLines - 1)}
    IN whole \cup {Unterminated(d) : d \in whole}

\* parse_block has called parse_list, or parse_fencedcode, on the rest of its text
BlockInit ==
    /\ document = <<>>
    /\ renderer \in {AllCallbacks, {"paragraph", "list"}}
    /\ ext_flags \in {{}, {"FENCED_CODE"}}
    /\ max_nesting = MaxNesting
    /\ refs = [k \in 0..(REF_TABLE_SIZE - 1) |-> <<>>]
    /\ footnotes_found = <<>>
    /\ footnotes_used = <<>>
    /\ work_bufs = [t \in TypeBufs |-> 0]
    /\ in_link_body = FALSE
    /\ pc = "footnotes"
    /\ beg = 0
    /\ text = <<>>
    /\ \/ \E data \in ListTexts :
             stack = <<[fn |-> "parse_list", pc |-> "start", data |-> data, i |-> 0,
                        flags |-> IF prefix_uli(data) # 0 THEN {} ELSE {"ORDERED"},
                        items |-> <<>>]>>
       \/ /\ "FENCED_CODE" \in ext_flags
          /\ \E data \in FencedTexts :
                stack = <<[fn |-> "parse_fencedcode", pc |-> "start", data |-> data,
                           work |-> <<>>, lang |-> <<>>]>>
    /\ calls = [seq |-> <<>>, step |-> <<>>]
    /\ fuel = 0
    /\ lastret = NoReturn

\* work = newbuf(md, BUFFER_BLOCK)
ListStart ==
    /\ In("parse_list", "start")
    /\ Goto(At_(Top, "loop"))
    /\ work_bufs' = newbuf(work_bufs, BUFFER_BLOCK)
    /\ calls' = now /\ lastret' = NoReturn
    /\ idle /\ UNCHANGED fuel

\* parse_list after parse_listitem returned r
ListItemDone(r) ==
    /\ Goto([Top EXCEPT !.i = @ + r.taken, !.flags = r.flags,
                        !.items = IF r.rendered THEN Append(@, r) ELSE @,
                        !.pc = IF r.taken = 0 \/ "LI_END" \in r.flags
                                  \/ Top.i + r.taken >= Len(Top.data)
                               THEN "render" ELSE "loop"])
    /\ calls' = IF r.rendered THEN Guarded(now, <<EvFlags("listitem", r.flags)>>)
                ELSE now
    /\ lastret' = [fn |-> "parse_listitem", ret |-> r.taken, flags |-> r.flags]

\* one turn of parse_list's loop: parse_listitem on data + i, with the two
\* buffers it takes and gives back and the listitem callback
ListItem ==
    /\ In("parse_list", "loop")
    /\ Top.i < Len(Top.data)
    /\ ListItemDone(parse_listitem(Rest(Top.data, Top.i), "FENCED_CODE" \in ext_flags,
                                   Top.flags))
    /\ idle /\ UNCHANGED <<work_bufs, fuel>>

\* the list callback, popbuf, return i
ListEnd ==
    /\ In("parse_list", "render")
    /\ Goto(At_(Top, "returned"))
    /\ calls' = Guarded(now, <<EvFlags("list", Top.flags)>>)
    /\ work_bufs' = popbuf(work_bufs, BUFFER_BLOCK)
    /\ lastret' = [fn |-> "parse_list", ret |-> Top.i, flags |-> Top.flags]
    /\ idle /\ UNCHANGED fuel

FencedCodeDone(r) ==
    /\ Goto([Top EXCEPT !.pc = "returned", !.work = r.work, !.lang = r.lang])
    /\ calls' = Guarded(now, <<Ev("blockcode")>>)
    /\ lastret' = [fn |-> "parse_fencedcode", ret |-> r.taken, flags |-> {}]

FencedCode ==
    /\ In("parse_fencedcode", "start")
    /\ FencedCodeDone(parse_fencedcode(Top.data))
    /\ idle /\ UNCHANGED <<work_bufs, fuel>>

BlockNext == ListStart \/ ListItem \/ ListEnd \/ FencedCode

BlockSpec == BlockInit /\ [][BlockNext]_vars

(***************************************************************************)
(* The specification                                                       *)
(***************************************************************************)
Next ==
    \/ RenderStart
    \/ Pass1Footnote
    \/ Pass1Ref
    \/ Pass1Line
    \/ RenderHeader
    \/ RenderBody
    \/ RenderFootnotes
    \/ RenderFooter
    \/ ParseBlockTooDeep
    \/ ParseBlockEnter
    \/ ParseBlockEnd
    \/ ParseBlockBlank
    \/ ParseBlockAtx
    \/ ParseBlockHtml
    \/ ParseBlockHrule
    \/ ParseBlockFenced
    \/ ParseBlockTable
    \/ ParseBlockAfterTable
    \/ ParseBlockQuote
    \/ ParseBlockCode
    \/ ParseBlockList
    \/ ParseBlockParagraph
    \/ AtxHeaderOpen
    \/ AtxHeaderEmpty
    \/ AtxHeaderRender
    \/ ParagraphPlain
    \/ ParagraphRender
    \/ ParagraphLead
    \/ ParagraphLeadRender
    \/ ParagraphHeader
    \/ ParagraphHeaderRender
    \/ BlockquoteOpen
    \/ BlockquoteRender
    \/ FencedCodeOpen
    \/ FencedCodeRender
    \/ BlockCodeOpen
    \/ BlockCodeRender
    \/ ListOpen
    \/ ListNext
    \/ ListRender
    \/ ListItemNone
    \/ ListItemOpen
    \/ ListItemSublist
    \/ ListItemRender
    \/ TableOpen
    \/ TableHeaderFail
    \/ TableHeader
    \/ TableRow
    \/ TableRender
    \/ TableRowSkipped
    \/ TableRowOpen
    \/ TableCell
    \/ TableCellRender
    \/ TableRowRender
    \/ FootnoteListEmpty
    \/ FootnoteListOpen
    \/ FootnoteListItem
    \/ FootnoteListRender
    \/ FootnoteDefOpen
    \/ FootnoteDefRender
    \/ InlineTooDeep
    \/ InlineEnter
    \/ InlineText
    \/ InlineEnd
    \/ CharLinebreak
    \/ CharCodespan
    \/ CharQuote
    \/ CharEscape
    \/ CharEntity
    \/ CharEmphasis
    \/ EmphasisNone
    \/ EmphasisParse
    \/ EmphasisAfter
    \/ Emph1None
    \/ Emph1Open
    \/ Emph1Render
    \/ Emph2None
    \/ Emph2Open
    \/ Emph2Render
    \/ Emph3None
    \/ Emph3Open
    \/ Emph3Render
    \/ Emph3Delegate
    \/ Emph3After
    \/ CharLangleTag
    \/ LangleNone
    \/ LangleRaw
    \/ LangleOpen
    \/ LangleRender
    \/ CharAutolinkUrl
    \/ UrlSuppressed
    \/ UrlOpen
    \/ UrlScan
    \/ CharAutolinkEmail
    \/ EmailSuppressed
    \/ EmailOpen
    \/ EmailScan
    \/ CharAutolinkWww
    \/ WwwSuppressed
    \/ WwwOpen
    \/ WwwNone
    \/ WwwMatch
    \/ WwwRender
    \/ CharSuperscript
    \/ SuperscriptNone
    \/ SuperscriptOpen
    \/ SuperscriptRender
    \/ CharLink
    \/ LinkFail
    \/ LinkFootnote
    \/ LinkInline
    \/ LinkReference
    \/ LinkUnknown
    \/ LinkContent
    \/ LinkAfterContent
    \/ LinkPlain
    \/ LinkRender

Spec == Init /\ [][Next]_vars

(***************************************************************************)
(* One parser instance, one render after the other.                        *)
(***************************************************************************)
\* hoedown_markdown_render returned and is called again on the same instance,
\* with another document: the instance is as the render before left it (the
\* tables still hold what free_link_refs and free_footnote_list freed)
RenderAgain ==
    /\ pc = "done"
    /\ \E run \in BodyRuns \cup PrescanRuns \cup LineRuns :
          /\ run.inst = Instance(renderer, ext_flags, max_nesting)
          /\ document' = run.doc
    /\ pc' = "start"
    /\ beg' = 0 /\ text' = <<>>
    /\ calls' = [seq |-> <<>>, step |-> <<>>]
    /\ fuel' = MaxFuel
    /\ lastret' = NoReturn
    /\ UNCHANGED <<renderer, ext_flags, max_nesting, refs, footnotes_found,
                   footnotes_used, work_bufs, in_link_body, stack>>

ReuseNext == Next \/ RenderAgain

ReuseSpec == Init /\ [][ReuseNext]_vars

\* parse_inline on the bytes of a paragraph, and the rest of render after it
SpanNext ==
    \/ InlineEnter
    \/ SpanText
    \/ SpanEnd
    \/ SpanEscape
    \/ SpanLinebreak
    \/ SpanCodespan
    \/ SpanEntity
    \/ SpanUrlSuppressed
    \/ SpanUrlScan
    \/ SpanUrlRender
    \/ SpanEmailSuppressed
    \/ SpanEmailScan
    \/ SpanEmailRender
    \/ SpanWwwSuppressed
    \/ SpanWwwScan
    \/ SpanWwwRender
    \/ SpanWild
    \/ ParagraphRender
    \/ ParseBlockEnd
    \/ RenderFootnotes
    \/ RenderFooter

SpanSpec == SpanInit /\ [][SpanNext]_vars

\* render is one thread of control that runs to its end: while it has a next
\* step it takes it
SpanRun == SpanSpec /\ WF_vars(SpanNext)

(***************************************************************************)
(* The first pass on reference definitions with titles: the title on the   *)
(* line of the link or on the next one, well formed or not.                *)
(***************************************************************************)
\* what follows the link: the title is on the same line, or on the next one
TitleSpacers == {<<CH.sp>>, <<CH.lf>>, <<CH.lf, CH.sp>>}

\* candidate titles: well formed, with spaces after, with bytes after the
\* closing delimiter, without closing delimiter
TitleTexts ==
    {<<CH.dq, CH.t, CH.dq>>, <<CH.sq, CH.t, CH.sq>>, <<CH.lp, CH.t, CH.rp>>,
     <<CH.dq, CH.t, CH.dq, CH.sp>>, <<CH.dq, CH.t, CH.dq, CH.sp, CH.x>>,
     <<CH.lp, CH.t, CH.rp, CH.x>>, <<CH.dq, CH.t>>, <<CH.lp, CH.t, CH.sp, CH.x>>,
     <<CH.sq, CH.t, CH.sp>>}

TitleDocs ==
    {<<CH.lb>> \o id \o <<CH.rb, CH.colon, CH.sp, CH.u>> \o sp \o title \o <<CH.lf>> \o rest :
        id \in {<<CH.a>>, <<CH.b>>}, sp \in TitleSpacers, title \in TitleTexts,
        rest \in {<<>>, TextLine}}
    \cup {<<CH.lb, CH.a, CH.rb, CH.colon, CH.sp, CH.u, CH.lf>> \o rest :
             rest \in {<<>>, TextLine}}

\* hoedown_markdown_render at the start of its first pass
TitleInit ==
    /\ document \in TitleDocs
    /\ renderer = AllCallbacks
    /\ ext_flags = {}
    /\ max_nesting = MaxNesting
    /\ refs = [k \in 0..(REF_TABLE_SIZE - 1) |-> <<>>]
    /\ footnotes_found = <<>>
    /\ footnotes_used = <<>>
    /\ work_bufs = [t \in TypeBufs |-> 0]
    /\ in_link_body = FALSE
    /\ pc = "pass1"
    /\ beg = 0
    /\ text = <<>>
    /\ stack = <<>>
    /\ calls = [seq |-> <<>>, step |-> <<>>]
    /\ fuel = MaxFuel
    /\ lastret = NoReturn

TitleNext == Pass1Ref \/ Pass1Line

TitleSpec == TitleInit /\ [][TitleNext]_vars

(***************************************************************************)
(* Properties of the work-buffer pools.                                    *)
(***************************************************************************)
\* C1: when hoedown_markdown_render returns, the SPAN pool top and the BLOCK
\* pool top are both 0 (the two assertions at its end hold), whatever the
\* document, the extension flags and the callbacks.
PoolsEmptyAtReturn ==
    pc = "done" => work_bufs[BUFFER_SPAN] = 0 /\ work_bufs[BUFFER_BLOCK] = 0

\* render returned after blocks and spans were rendered and every dispatch the
\* bound allows was made
PoolsUsedAndEmptied ==
    /\ pc = "done" /\ fuel = 0
    /\ \E i \in 1..Len(calls.seq) :
          calls.seq[i].cb = "run" /\ {"block", "span"} \subseteq calls.seq[i].flags
    /\ work_bufs = [t \in TypeBufs |-> 0]

\* the buffers held by the active functions, outermost first
HeldBuffers == Flatten([k \in 1..Len(stack) |-> stack[k].held])
OfType(held, type) ==
    LET of_type(h) == h[1] = type IN SelectSeq(held, of_type)

\* the buffers in use of each pool are the ones the active functions hold, and
\* lie in the pool in the order of their acquisition: a release at the top is
\* a release of the most recently acquired one
PoolIsStack ==
    \A type \in TypeBufs :
        LET held == OfType(HeldBuffers, type)
        IN /\ Len(held) = work_bufs[type]
           /\ \A k \in 1..Len(held) : held[k][2] = k - 1

\* a function returns: the pool tops are those it was entered with
ReturnRestoresPools ==
    (stack # <<>> /\ stack' = Below) => work_bufs' = Top.entry

\* C2: every parsing function that acquires pool buffers returns, on every
\* path, with both pool tops equal to their values at entry, and every release
\* pops the most recently acquired buffer of its class.
PoolsRestoredOnReturn == [][ReturnRestoresPools /\ PoolIsStack']_vars

\* parse_table took its two buffers, found no table header and returned 0
TableRefusedAfterAcquire ==
    /\ lastret.fn = "parse_table" /\ lastret.ret = 0
    /\ PoolIsStack

\* C3 as stated: the combined depth of the two pools never exceeds max_nesting.
NestingWithinLimit == Depth(work_bufs) <= max_nesting

\* C3 as the code has it: parse_block and parse_inline go on only when entered
\* at a combined depth of at most max_nesting, and the functions they call hold
\* at most four buffers before the next nesting test, so the combined depth
\* never exceeds max_nesting + 4.
NestingWithinLimitPlusHeld ==
    /\ Depth(work_bufs) <= max_nesting + 4
    /\ \A k \in 1..Len(stack) :
          (stack[k].fn \in {"parse_block", "parse_inline"} /\ stack[k].pc # "guard")
              => Depth(stack[k].entry) <= max_nesting

\* an inline link with a link, a title and a text, met at depth max_nesting
DeepestLink ==
    /\ Depth(work_bufs) = max_nesting + 4
    /\ stack # <<>> /\ Top.fn = "char_link"

\* parse_block or parse_inline is entered with the pools too deep
TooDeep ==
    /\ In("parse_block", "guard") \/ In("parse_inline", "guard")
    /\ nesting_exceeded(work_bufs, max_nesting)

\* ... its step is a return that calls nothing, writes nothing and leaves the
\* rest of the parser's state as it is
TooDeepReturnsAtOnce ==
    TooDeep =>
        /\ stack' = Below
        /\ calls'.step = <<>> /\ calls'.seq = calls.seq
        /\ work_bufs' = work_bufs
        /\ UNCHANGED <<in_link_body, footnotes_found, footnotes_used, refs, pc>>

\* the second pass is never stuck: until render has returned (or died in a
\* call through a NULL callback) it has a step to take
RenderGoesOn == pc \in {"body", "footnotes", "footer"} => ENABLED Next

\* C4: parse_block or parse_inline entered above max_nesting returns at once,
\* with no callback, no output and the pool tops unchanged; the functions
\* that called it go on and render completes.
TooDeepIsSkipped == [][TooDeepReturnsAtOnce]_vars /\ []RenderGoesOn

\* parse_inline has just returned from its nesting test inside a construct
\* that is still being rendered
SkippedSpan ==
    /\ lastret.fn = "parse_inline" /\ lastret.ret = 0
    /\ Depth(work_bufs) > max_nesting
    /\ Running

(***************************************************************************)
(* Properties of in_link_body.                                             *)
(***************************************************************************)
\* C5: every call of char_link returns with in_link_body equal to the value it
\* had when the call was entered, also a call for a bracketed construct nested
\* in the display text of a link.
LinkRestoresInLinkBody ==
    [][(stack # <<>> /\ Top.fn = "char_link" /\ stack' = Below)
           => in_link_body' = Top.ilb]_vars

\* the display text of a (non-image) link is being parsed
InLinkText ==
    \E k \in 1..Len(stack) : stack[k].fn = "char_link" /\ stack[k].pc = "after_content"

Autolinkers == {"char_autolink_url", "char_autolink_www", "char_autolink_email"}

NoAutolinkCall(step) ==
    \A i \in 1..Len(step) : step[i].cb \notin {"autolink", "link"}

\* C6: inside the display text of a link the three autolink handlers call
\* neither autolink nor link and return 0, also after a nested bracketed link
\* or image.
AutolinkSuppressedInLinkText ==
    [][(stack # <<>> /\ Top.fn \in Autolinkers /\ InLinkText)
           => /\ NoAutolinkCall(calls'.step)
              /\ stack' = Below => lastret'.ret = 0]_vars

(***************************************************************************)
(* Properties of the footnotes.                                            *)
(***************************************************************************)
IsFootnoteRef(e) == e.cb = "footnote_ref"
IsFootnoteDef(e) == e.cb = "footnote_def"
IsFootnotes(e) == e.cb = "footnotes"

\* the used list holds each footnote at most once, the footnote at place k
\* has ordinal k, the used footnotes are those of the list, and every
\* footnote_ref call passed the ordinal its footnote has, the ordinals met
\* for the first time being 1, 2, 3, ...
OrdinalsInOrder ==
    /\ \A i, j \in 1..Len(footnotes_used) :
          i # j => footnotes_used[i] # footnotes_used[j]
    /\ \A k \in 1..Len(footnotes_used) :
          /\ footnotes_found[footnotes_used[k]].is_used
          /\ footnotes_found[footnotes_used[k]].num = k
    /\ \A f \in 1..Len(footnotes_found) :
          footnotes_found[f].is_used
              => \E k \in 1..Len(footnotes_used) : footnotes_used[k] = f
    /\ \A j \in 1..Len(calls.seq) :
          IsFootnoteRef(calls.seq[j])
              => /\ footnotes_found[calls.seq[j].fn].is_used
                 /\ calls.seq[j].num = footnotes_found[calls.seq[j].fn].num
                 /\ calls.seq[j].num > 1
                       => \E i \in 1..(j - 1) :
                             /\ IsFootnoteRef(calls.seq[i])
                             /\ calls.seq[i].num = calls.seq[j].num - 1

\* an ordinal once assigned never changes
OrdinalsStable ==
    \A f \in 1..Len(footnotes_found) :
        footnotes_found[f].is_used
            => /\ footnotes_found'[f].is_used
               /\ footnotes_found'[f].num = footnotes_found[f].num

\* C7: with FOOTNOTES on, each footnote is at most once in the used list, the
\* k-th footnote referenced for the first time has ordinal k, an ordinal never
\* changes, and every later reference passes the same ordinal to footnote_ref.
FootnoteOrdinals == []OrdinalsInOrder /\ [][OrdinalsStable]_vars

\* two footnotes are used and one of them was referenced twice
FootnoteReferencedAgain ==
    /\ Len(footnotes_used) = 2
    /\ \E i, j \in 1..Len(calls.seq) :
          /\ i < j
          /\ IsFootnoteRef(calls.seq[i]) /\ IsFootnoteRef(calls.seq[j])
          /\ calls.seq[i].fn = calls.seq[j].fn

\* C8: with FOOTNOTES on, when render returns every used footnote has got
\* exactly one footnote_def call, in ascending ordinal order, and the footnotes
\* callback was called once, after them, if a footnote was used, and not
\* otherwise (each callback if the renderer has it).
UsedFootnotesRendered ==
    (pc = "done" /\ footnotes_enabled) =>
        LET defs == SelectSeq(calls.seq, IsFootnoteDef)
            notes == SelectSeq(calls.seq, IsFootnotes)
        IN /\ "footnote_def" \in renderer
                 => /\ Len(defs) = Len(footnotes_used)
                    /\ \A k \in 1..Len(defs) :
                          defs[k].fn = footnotes_used[k] /\ defs[k].num = k
           /\ "footnotes" \in renderer
                 => /\ Len(notes) = (IF footnotes_used = <<>> THEN 0 ELSE 1)
                    /\ \A i, j \in 1..Len(calls.seq) :
                          IsFootnotes(calls.seq[i]) /\ IsFootnoteDef(calls.seq[j])
                              => j < i
           /\ "footnotes" \notin renderer => notes = <<>>

\* render returned; the second footnote was first referenced in the contents
\* of the first one while the footnotes were rendered, and both got their call
FootnoteUsedInTail ==
    /\ pc = "done" /\ footnotes_enabled
    /\ Len(footnotes_used) = 2
    /\ \E i \in 1..Len(calls.seq) :
          /\ IsFootnoteRef(calls.seq[i])
          /\ calls.seq[i].num = 2 /\ "tail" \in calls.seq[i].flags
    /\ Len(SelectSeq(calls.seq, IsFootnoteDef)) = 2
    /\ Len(SelectSeq(calls.seq, IsFootnotes)) = 1

(***************************************************************************)
(* Properties of hoedown_markdown_render.                                  *)
(***************************************************************************)
\* C9: for a document that is empty or only a BOM the calls are doc_header
\* once, then doc_footer once, and nothing else; for every document
\* doc_header is the first call and doc_footer the last (each if the renderer
\* has it).
HeaderFirstFooterLast ==
    /\ ("doc_header" \in renderer /\ calls.seq # <<>>)
          => /\ calls.seq[1].cb = "doc_header"
             /\ \A i \in 2..Len(calls.seq) : calls.seq[i].cb # "doc_header"
    /\ \A i \in 1..Len(calls.seq) :
          calls.seq[i].cb = "doc_footer" => pc = "done" /\ i = Len(calls.seq)
    /\ (pc = "done" /\ "doc_footer" \in renderer)
          => calls.seq # <<>> /\ calls.seq[Len(calls.seq)].cb = "doc_footer"
    /\ pc = "done" => ("doc_header" \in renderer => calls.seq # <<>>)
    /\ document \in {<<>>, UTF8_BOM}
          => /\ \A i \in 1..Len(calls.seq) : calls.seq[i].cb \in DocCallbacks
             /\ pc = "done" => Len(calls.seq) = Cardinality(DocCallbacks \cap renderer)

\* render of a document that is only a BOM returned
BomOnlyRendered ==
    /\ pc = "done" /\ document = UTF8_BOM
    /\ calls.seq = <<Ev("doc_header"), Ev("doc_footer")>>

\* the documents that are reference definitions, one per line, and nothing
\* else (with or without a BOM, the last line with or without its newline),
\* each with the number of its definitions
DefinitionsOf ==
    UNION {LET d == Flatten(ls)
           IN {<<doc, Len(ls)>> : doc \in {d, Unterminated(d), UTF8_BOM \o d,
                                           UTF8_BOM \o Unterminated(d)}} :
           ls \in RefOnlyLines}

\* the entries of the reference table
TableEntries == Flatten([k \in 1..REF_TABLE_SIZE |-> refs[k - 1]])

\* C10: for a document made only of well-formed link reference definitions,
\* one per line, pass 1 adds one entry to the reference table per definition
\* and pass 2 makes no block-level call.
ReferencesOnlyDocument ==
    \A d \in DefinitionsOf :
        (document = d[1] /\ pc \notin {"start", "pass1"})
            => /\ Len(TableEntries) = d[2]
               /\ \A k \in 1..Len(TableEntries) : TableEntries[k].link = <<CH.u>>
               /\ \A i \in 1..Len(calls.seq) :
                     calls.seq[i].cb = "run" => "block" \notin calls.seq[i].flags

\* two definitions of the same name (but for its case) are both in the table
TwoDefinitionsRendered ==
    /\ pc = "done"
    /\ document = RefLine(0, <<CH.a>>, 1, FALSE, "none", <<CH.lf>>)
                  \o RefLine(3, <<CH.A>>, 1, FALSE, "dq", <<CH.lf>>)
    /\ Len(TableEntries) = 2
    /\ "paragraph" \in renderer

(***************************************************************************)
(* Resolution of references.                                               *)
(***************************************************************************)
\* the names looked up below: those of the definitions, and some more
ProbeIds == LinkIds \cup {<<CH.b, CH.sp, CH.a>>, <<>>, <<CH.i>>, <<CH.x, CH.A, CH.t>>,
                         <<64, 91>>, <<96, 123>>}
Probes == {hash_link_ref(id) : id \in ProbeIds}

\* the step is the pass-1 step that takes a link reference definition
TakesDefinition == pc = "pass1" /\ refs' # refs

\* the entry that step adds
Defined ==
    LET r == is_ref(document, beg, Len(document))
    IN [id |-> r.id, link |-> r.link, has_title |-> r.has_title, title |-> r.title]

\* C11 as stated: a definition whose hash is already in the table does not
\* change what a lookup of that hash finds (the definition inserted first wins).
FirstDefinitionWins ==
    [][TakesDefinition =>
          \A h \in Probes :
             find_link_ref(refs', h) =
                IF find_link_ref(refs, h) # <<>> THEN find_link_ref(refs, h)
                ELSE IF h = Defined.id THEN <<Defined>> ELSE <<>>]_vars

\* C11, amended: after every definition pass 1 takes, a lookup of the
\* definition's hash finds that definition (the one inserted last wins, that
\* is the one that comes last in the document), and a lookup of any other hash
\* finds what it found before.
LastDefinitionWins ==
    [][TakesDefinition =>
          \A h \in Probes :
             find_link_ref(refs', h) =
                IF h = Defined.id THEN <<Defined>> ELSE find_link_ref(refs, h)]_vars

\* a reference link was resolved with a table in which a name is defined twice,
\* differently, and the lookup finds the second definition
SecondDefinitionResolved ==
    /\ In("char_link", "content") /\ Top.link
    /\ document = RefLine(0, <<CH.a>>, 1, FALSE, "none", <<CH.lf>>)
                  \o RefLine(3, <<CH.A>>, 1, FALSE, "dq", <<CH.lf>>) \o TextLine
    /\ find_link_ref(refs, hash_link_ref(<<CH.a>>))[1].has_title

\* the spellings of a name that differ from it in the case of ASCII letters only
Variants(c) ==
    IF c >= 65 /\ c <= 90 THEN {c, c + 32}
    ELSE IF c >= 97 /\ c <= 122 THEN {c, c - 32}
    ELSE {c}
Mixes(id) ==
    {s \in [1..Len(id) -> UNION {Variants(id[k]) : k \in 1..Len(id)}] :
        \A k \in 1..Len(id) : s[k] \in Variants(id[k])}

\* a name with each of its spellings, and their hashes
Spellings == UNION {{<<id, s>> : s \in Mixes(id)} : id \in ProbeIds}
SpelledHashes == {<<hash_link_ref(p[1]), hash_link_ref(p[2])>> : p \in Spellings}

\* C12: two names that differ only in the case of ASCII letters have the same
\* hash, and a lookup of either finds the same entry of the reference table and
\* the same footnote.
CaseInsensitiveLookup ==
    /\ \A h \in SpelledHashes :
          h[1] = h[2] /\ find_link_ref(refs, h[1]) = find_link_ref(refs, h[2])
    /\ \A id \in LinkIds : \A s \in Mixes(id) :
          find_footnote_ref(footnotes_found, s) = find_footnote_ref(footnotes_found, id)

\* a reference link was resolved with a table that holds "[a]: ..." only, and
\* "A" is found in it
OtherCaseResolved ==
    /\ In("char_link", "content") /\ Top.link
    /\ document = RefLine(0, <<CH.a>>, 1, FALSE, "dq", <<CH.lf>>) \o TextLine
    /\ find_link_ref(refs, hash_link_ref(<<CH.A>>)) # <<>>
    /\ find_link_ref(refs, hash_link_ref(<<CH.b>>)) = <<>>

RECURSIVE Count(_, _)
Count(data, c) ==
    IF data = <<>> THEN 0
    ELSE (IF Head(data) = c THEN 1 ELSE 0) + Count(Tail(data), c)

\* the number of line terminators in a run of '\r' and '\n': a '\r' followed by
\* a '\n' is one terminator with it
RECURSIVE Terminators(_)
Terminators(run) ==
    IF run = <<>> THEN 0
    ELSE IF Head(run) = CH.cr /\ Len(run) > 1 /\ run[2] = CH.lf
    THEN 1 + Terminators(Tail(Tail(run)))
    ELSE 1 + Terminators(Tail(run))

\* the step is the pass-1 step that copies a line of text
CopiesLine ==
    /\ pc = "pass1" /\ beg' # beg
    /\ refs' = refs /\ footnotes_found' = footnotes_found

\* C14 as stated: the pass-1 step that copies a line appends one '\n' for each
\* terminator of the run of terminators after the line, wherever the run is.
OneNewlinePerTerminator ==
    [][CopiesLine =>
          Count(text', CH.lf) - Count(text, CH.lf)
             = Terminators(Slice(document,
                                 SkipUntil(document, beg, Len(document), {CH.lf, CH.cr}),
                                 beg'))]_vars


\* char_escape is met with a byte after the backslash
EscapesByte == Met("char_escape") /\ Len(Top.data) - Top.end > 1

\* C15: with the extensions used here the escape set is \ ` * _ { } [ ] ( ) #
\* + - . ! : | & < > ^ ~; a backslash before a byte of the set is dropped, the
\* two bytes are consumed and the byte alone goes to normal_text (or raw to
\* the output); before a byte outside the set the handler returns 0 and the
\* backslash is emitted verbatim with the text that follows
EscapeFollowsTheSet ==
    /\ [][EscapesByte =>
            LET b == At(Top.data, Top.end + 1)
            IN IF b \in escape_chars
               THEN /\ lastret' = [fn |-> "char_escape", ret |-> 2, flags |-> {}]
                    /\ Top'.i = Top.end + 2 /\ Top'.end = Top.end + 2
                    /\ IF "normal_text" \in renderer
                       THEN Top'.work = <<b>> /\ calls'.step = <<Ev("normal_text")>>
                       ELSE Top'.ob = put(Top.ob, <<b>>)
               ELSE /\ lastret' = [fn |-> "char_escape", ret |-> 0, flags |-> {}]
                    /\ Top'.ob = Top.ob /\ calls'.step = <<>>
                    /\ Top'.i = Top.end /\ Top'.end = Top.end + 1]_vars
    /\ [][(OnBytes("loop") /\ Top.i < Len(Top.data) /\ Top'.pc = "disp") =>
            IF "normal_text" \in renderer
            THEN Top'.work = Slice(Top.data, Top.i, Top'.end)
            ELSE Top'.ob = put(Top.ob, Slice(Top.data, Top.i, Top'.end))]_vars

\* a handler called by parse_inline returns 0 in this step
HandlerFails ==
    /\ OnBytes("disp") /\ pc' = pc /\ Len(stack') = Len(stack)
    /\ lastret'.fn # "" /\ lastret'.ret = 0

\* C16: when an inline handler returns 0, also because the callback declined
\* to render, the output buffer holds exactly the bytes it held when the
\* handler was entered
FailedHandlerLeavesOutput == [][HandlerFails => Top'.ob = Top.ob]_vars

\* the callback of an inline construct is called in this step and declines
CallbackDeclines ==
    /\ Running /\ Top.fn = "parse_inline" /\ ~Top.abs
    /\ \E k \in DOMAIN calls'.step : "declined" \in calls'.step[k].flags

\* C17: when the callback of an inline construct returns a falsy value the
\* handler returns 0: the bytes of the construct are not consumed, the byte
\* the handler was met at is emitted verbatim with the next run and
\* parse_inline resumes one byte after it
DeclinedConstructNotConsumed ==
    [][CallbackDeclines =>
         /\ lastret'.fn # "" /\ lastret'.ret = 0
         /\ Top'.i = Top.end /\ Top'.end = Top.end + 1]_vars

\* an autolink scanner finds a link in this step
ScannerFinds == OnBytes("disp") /\ Top'.pc \in {"in_url", "in_email", "in_www"}

\* C19: when an autolink scanner finds a link with a rewind count r, the handler
\* shortens the output buffer by min(r, size of the output): the size never
\* wraps around below zero
RewindStopsAtZero ==
    /\ [][ScannerFinds =>
            \E r \in 0..Top.end :
               LET n == IF r < Top.ob.size THEN r ELSE Top.ob.size
               IN Top'.ob = Buf(SubSeq(Top.ob.bytes, 1, Top.ob.size - n))]_vars
    /\ [](\A k \in DOMAIN stack :
            (stack[k].fn = "parse_inline" /\ ~stack[k].abs) => sound(stack[k].ob))

\* C18: every callback is optional: whatever callbacks the renderer holds and
\* whatever the extensions and the input, the parser never calls through a
\* callback pointer that is NULL (in the second pass such a call is the only
\* way the process dies)
AbsentCallbackNeverInvoked == pc # "crashed"

\* a handler called by parse_inline returns in this step
HandlerReturns ==
    /\ Running /\ Top.fn = "parse_inline" /\ ~Top.abs
    /\ pc' = pc /\ Len(stack') = Len(stack) /\ lastret'.fn # ""

\* C20: render terminates: every iteration of the loop of parse_inline leaves
\* its position at least one byte further, also when the handler returned 0,
\* and the state Done is always reached
RenderReachesDone ==
    /\ [][HandlerReturns => (Top'.end > Top.end /\ Top'.i >= Top.end)]_vars
    /\ <>(pc = "done")

\* the end of the first run of exactly nb backticks in data from at on, 0 when
\* there is none
RECURSIVE equal_run_end(_, _, _)
equal_run_end(data, nb, at) ==
    LET p == SkipUntil(data, at, Len(data), {CH.bt})
        q == SkipWhile(data, p, Len(data), {CH.bt})
    IN IF p >= Len(data) THEN 0
       ELSE IF q - p = nb THEN q
       ELSE equal_run_end(data, nb, q)

\* C21: a code span opened by n backticks is closed by the next run of exactly
\* n backticks: a run of more or of fewer backticks does not close it, and with
\* no run of exactly n the handler returns 0
CodespanClosedByEqualRun ==
    [][Met("char_codespan") =>
         LET data == Slice(Top.data, Top.end, Len(Top.data))
             nb == SkipWhile(data, 0, Len(data), {CH.bt})
             close == equal_run_end(data, nb, nb)
         IN IF close = 0 THEN lastret'.ret = 0 /\ calls'.step = <<>>
            ELSE \/ lastret'.ret = close /\ calls'.step = <<Ev("codespan")>>
                 \/ lastret'.ret = 0 /\ calls'.step = <<Declined("codespan")>>]_vars

\* the codespan callback is called in this step
CodespanCalled ==
    /\ Met("char_codespan")
    /\ \E k \in DOMAIN calls'.step : calls'.step[k].cb = "codespan"

\* the text between the delimiters of the code span met
Between ==
    LET data == Slice(Top.data, Top.end, Len(Top.data))
        nb == SkipWhile(data, 0, Len(data), {CH.bt})
    IN Slice(data, nb, codespan_end(data) - nb)

\* C22 as stated: the codespan callback gets the text between the delimiters
\* less one leading and one trailing space, removed only when there is a
\* space on both sides
CodespanTextPaired ==
    [][CodespanCalled =>
         Top'.work = IF Len(Between) >= 2 /\ Head(Between) = CH.sp
                          /\ Between[Len(Between)] = CH.sp
                     THEN SubSeq(Between, 2, Len(Between) - 1)
                     ELSE Between]_vars

\* bytes without the spaces at its start
RECURSIVE Unled(_)
Unled(bytes) == IF bytes # <<>> /\ Head(bytes) = CH.sp THEN Unled(Tail(bytes)) ELSE bytes

\* bytes without the spaces at its end
RECURSIVE Untrailed(_)
Untrailed(bytes) ==
    IF bytes # <<>> /\ bytes[Len(bytes)] = CH.sp
    THEN Untrailed(SubSeq(bytes, 1, Len(bytes) - 1)) ELSE bytes

\* C22 amended: the codespan callback gets the text between the delimiters
\* less every leading and every trailing space, each side on its own; when
\* nothing is left it gets the null text
CodespanTextTrimmed ==
    [][CodespanCalled => Top'.work = Untrailed(Unled(Between))]_vars

\* a code span with a space on one side only was handed to the callback
OneSidedSpaceTrimmed ==
    /\ Running /\ Top.fn = "parse_inline" /\ ~Top.abs
    /\ Top.data = <<CH.bt, CH.sp, CH.x, CH.bt>>
    /\ lastret = [fn |-> "char_codespan", ret |-> 4, flags |-> {}]
    /\ Top.work = <<CH.x>>

\* the positions of data from i on that lie inside a code span, or inside a
\* "[...]" followed by a "(...)" or "[...]" that is closed
RECURSIVE Shielded(_, _)
Shielded(data, i) ==
    LET size == Len(data)
        nb == SkipWhile(data, i, size, {CH.bt}) - i
        d == next_delimiter(data, i + nb, 0, nb)
        close == SkipUntil(data, i + 1, size, {CH.rb})
        open == SkipWhile(data, close + 1, size, {CH.sp, CH.lf})
        cc == IF At(data, open) = CH.lb THEN CH.rb ELSE CH.rp
        end == SkipUntil(data, open + 1, size, {cc})
    IN IF i >= size THEN {}
       ELSE IF At(data, i) = CH.bs THEN Shielded(data, i + 2)
       ELSE IF At(data, i) = CH.bt
       THEN IF d.i = nb THEN (i..(d.end - 1)) \cup Shielded(data, d.end)
            ELSE Shielded(data, i + nb)
       ELSE IF At(data, i) = CH.lb /\ open < size /\ At(data, open) \in {CH.lb, CH.lp}
               /\ end < size
       THEN (i..end) \cup Shielded(data, end + 1)
       ELSE Shielded(data, i + 1)

\* find_emph_char has returned a position
EmphFound == In("find_emph_char", "returned") /\ lastret.ret # 0

\* C23: the closing position find_emph_char returns for a delimiter c never
\* lies inside a backtick code span, nor inside a bracketed link-like
\* construct that is closed
EmphCloseOutsideSpans == EmphFound => lastret.ret \notin Shielded(Top.data, 1)

\* data starts with an item prefix of the other kind than the list's
OtherKind(data, flags) ==
    IF "ORDERED" \in flags THEN prefix_uli(data) # 0 ELSE prefix_oli(data) # 0

\* the line before data[i] is an empty line
BlankBefore(data, i) == i >= 2 /\ At(data, i - 1) = CH.lf /\ At(data, i - 2) = CH.lf

\* one turn of parse_list's loop
ListTurn == In("parse_list", "loop") /\ lastret'.fn = "parse_listitem"

BlockItemHasBlankLine ==
    [][(ListTurn /\ Len(Top'.items) > Len(Top.items)) =>
         LET r == Top'.items[Len(Top'.items)]
         IN /\ (r.parser = "parse_block") <=> r.inside_empty
            /\ ("LI_BLOCK" \in r.flags) <=> r.inside_empty]_vars

\* C26: the flags handed to the list and listitem callbacks hold nothing but
\* ORDERED and BLOCK
ListFlagsPublic ==
    [][\A k \in DOMAIN calls'.step :
          calls'.step[k].cb \in {"list", "listitem"} =>
             calls'.step[k].flags \subseteq {"ORDERED", "LI_BLOCK"}]_vars

\* the first byte of the fence that opens data
FenceChar(data) == At(data, SkipWhile(data, 0, Len(data), {CH.sp}))

\* the start of the first line from i on that is a fence of the byte c with
\* nothing after it; Len(data) when there is none
RECURSIVE MatchingFence(_, _, _)
MatchingFence(data, i, c) ==
    IF i >= Len(data) THEN Len(data)
    ELSE IF is_codefence(Rest(data, i)).len # 0 /\ is_codefence(Rest(data, i)).syntax = <<>>
            /\ FenceChar(Rest(data, i)) = c
    THEN i
    ELSE MatchingFence(data, line_end(data, i + 1), c)

\* C27: a fenced block ends only at a fence of the same kind as the one that
\* opened it, and the lines between the two are handed to blockcode verbatim
FenceClosedByItsKind ==
    [][In("parse_fencedcode", "start") =>
         LET data == Top.data
             open == is_codefence(data).len
             close == MatchingFence(data, open, FenceChar(data))
             lines == Slice(data, open, close)
         IN /\ Top'.work = IF lines # <<>> /\ lines[Len(lines)] # CH.lf
                           THEN Append(lines, CH.lf) ELSE lines
            /\ lastret'.ret = IF close >= Len(data) THEN Len(data)
                              ELSE close + is_codefence(Rest(data, close)).len]_vars

\* C29: a handler called by parse_inline on the size bytes that remain returns
\* at most size, and the position of parse_inline stays within the span
HandlerStaysInSpan ==
    [][HandlerReturns =>
         /\ lastret'.ret <= Len(Top.data) - Top.end
         /\ Top'.i <= Len(Top.data) /\ Top'.end <= Len(Top.data)]_vars

\* the quote or parenthesis that opens the candidate title of the reference
\* definition at data[b]: on the line of the link, or the first byte that is
\* not a space of the next line; Len(data) when there is none
TitleOpens(data, b) ==
    LET eol == SkipUntil(data, b, Len(data), {CH.lf, CH.cr})
        here == SkipUntil(data, b, eol, {CH.sq, CH.dq, CH.lp})
        next == SkipWhile(data, eol + 1, Len(data), {CH.sp})
    IN IF here < eol THEN here
       ELSE IF next < Len(data) /\ At(data, next) \in {CH.sq, CH.dq, CH.lp} THEN next
       ELSE Len(data)

\* the title opened at data[p] is closed by a quote or parenthesis with
\* nothing but spaces after it on its line
TitleWellFormed(data, p) ==
    LET eol == SkipUntil(data, p, Len(data), {CH.lf, CH.cr})
        close == StepBack(data, eol - 1, p)
    IN close > p /\ At(data, close) \in {CH.sq, CH.dq, CH.rp}

\* C28: the entry that pass 1 adds has a title only when the candidate title
\* is well formed, and then pass 1 goes on after the line of the title; from a
\* title line with bytes after the closing delimiter, or without closing
\* delimiter, nothing is stored as title
TitleOnlyWellFormed ==
    [][(pc = "pass1" /\ refs' # refs) =>
         LET k == CHOOSE k \in DOMAIN refs : refs'[k] # refs[k]
             entry == Head(refs'[k])
             p == TitleOpens(document, beg)
         IN /\ entry.has_title =>
                 /\ p < Len(document) /\ TitleWellFormed(document, p)
                 /\ beg' = SkipUntil(document, p, Len(document), {CH.lf, CH.cr})
            /\ (p < Len(document) /\ ~TitleWellFormed(document, p)) =>
                 (~entry.has_title /\ entry.title = <<>>)]_vars

\* C30: a render that starts on an instance that has rendered before reads,
\* after its reset, the state of a fresh instance: both tables and both
\* footnote lists empty, both pool tops 0, in_link_body false, no frame
ReusedAsFresh ==
    [][(pc = "start" /\ pc' = "pass1") =>
         /\ refs' = [k \in 0..(REF_TABLE_SIZE - 1) |-> <<>>]
         /\ footnotes_found' = <<>> /\ footnotes_used' = <<>>
         /\ work_bufs' = [t \in TypeBufs |-> 0]
         /\ in_link_body' = FALSE
         /\ stack' = <<>>]_vars

\* a render is about to start on an instance whose render before left
\* footnotes and used footnotes behind
StartsOnUsedInstance ==
    /\ pc = "start"
    /\ footnotes_found # <<>> /\ footnotes_used # <<>>

=============================================================================
